---- MODULE Spec2Model ----
(***************************************************************************)
(* Verification model of the statistical estimation engine of              *)
(* method-eval-tools: the regression estimators (Deming, weighted Deming,  *)
(* Passing-Bablok), the jackknife confidence interval and the one- and     *)
(* two-factor variance-component analyses.                                 *)
(*                                                                         *)
(* Numbers.  The source computes with IEEE-754 doubles.  The model keeps   *)
(* the special values NaN, +Infinity and -Infinity and represents a finite *)
(* value v by the integer round(v * SCALE) (fixed point); a finite result  *)
(* whose magnitude exceeds MAXFIN / SCALE overflows to an infinity.  Zero  *)
(* is unsigned.                                                            *)
(***************************************************************************)
EXTENDS Integers, Sequences, FiniteSets, TLC

\* ---------------------------------------------------------------- bounds
MaxLen == 3        \* longest sample
MaxVal == 1        \* sample values range over -1 .. MaxVal
MaxIter == 2       \* largest iterMax tried
MaxDays == 2       \* days (levels of factor A) of a precision design
MaxRuns == 2       \* runs (levels of factor B) per day
MaxReps == 3       \* replicates per run
MaxB == 3         \* bootstrap: the largest number of resamples
MaxCalls == 2      \* calls made on one analysis object
MaxObsVal == 1     \* precision measurements range over 0 .. MaxObsVal
SCALE == 1000      \* fixed-point units per 1.0
MAXFIN == 2000000  \* largest finite magnitude, in fixed-point units

\* ------------------------------------------------------- number domain
NaN == [k |-> "nan", v |-> 0]
PInf == [k |-> "inf", v |-> 1]
NInf == [k |-> "inf", v |-> -1]

Fin(v) ==
  IF v > MAXFIN THEN PInf
  ELSE IF v < -MAXFIN THEN NInf
  ELSE [k |-> "fin", v |-> v]

FromInt(i) == Fin(i * SCALE)
Zero == FromInt(0)
One == FromInt(1)
Two == FromInt(2)
Four == FromInt(4)

IsNaN(a) == a.k = "nan"
IsFinite(a) == a.k = "fin"
IAbs(i) == IF i < 0 THEN -i ELSE i
Sign(a) == IF a.v > 0 THEN 1 ELSE IF a.v < 0 THEN -1 ELSE 0
Neg(a) == [a EXCEPT !.v = -a.v]
Abs(a) == [a EXCEPT !.v = IAbs(a.v)]

Add(a, b) ==
  IF IsNaN(a) \/ IsNaN(b) THEN NaN
  ELSE IF a.k = "inf" /\ b.k = "inf" THEN (IF a.v = b.v THEN a ELSE NaN)
  ELSE IF a.k = "inf" THEN a
  ELSE IF b.k = "inf" THEN b
  ELSE Fin(a.v + b.v)

Sub(a, b) == Add(a, Neg(b))

\* |a| * |b| / SCALE on fixed-point magnitudes, rounded to nearest, or -1
\* when the product exceeds MAXFIN
MulMag(m, n) ==
  LET hi == m \div SCALE
      lo == m % SCALE
  IN IF hi > 0 /\ n > MAXFIN \div hi THEN -1
     ELSE hi * n + (lo * n + SCALE \div 2) \div SCALE

Mul(a, b) ==
  IF IsNaN(a) \/ IsNaN(b) THEN NaN
  ELSE IF a.k = "inf" \/ b.k = "inf"
    THEN (IF Sign(a) * Sign(b) = 0 THEN NaN
          ELSE IF Sign(a) * Sign(b) > 0 THEN PInf ELSE NInf)
  ELSE LET r == MulMag(IAbs(a.v), IAbs(b.v))
           s == Sign(a) * Sign(b)
       IN IF r < 0 THEN (IF s > 0 THEN PInf ELSE NInf)
          ELSE Fin(s * r)

Div(a, b) ==
  IF IsNaN(a) \/ IsNaN(b) THEN NaN
  ELSE IF a.k = "inf" /\ b.k = "inf" THEN NaN
  ELSE IF a.k = "inf" THEN (IF Sign(a) * Sign(b) < 0 THEN NInf ELSE PInf)
  ELSE IF b.k = "inf" THEN Zero
  ELSE IF b.v = 0
    THEN (IF a.v = 0 THEN NaN ELSE IF a.v > 0 THEN PInf ELSE NInf)
  ELSE LET m == IAbs(a.v)
           n == IAbs(b.v)
           s == Sign(a) * Sign(b)
       IN Fin(s * ((m * SCALE + n \div 2) \div n))

RECURSIVE ISqrtBetween(_, _, _)
\* largest r in lo..hi with r * r <= t
ISqrtBetween(t, lo, hi) ==
  IF lo >= hi THEN lo
  ELSE LET mid == (lo + hi + 1) \div 2
       IN IF mid * mid <= t THEN ISqrtBetween(t, mid, hi)
          ELSE ISqrtBetween(t, lo, mid - 1)

Sqrt(a) ==
  IF IsNaN(a) THEN NaN
  ELSE IF a.k = "inf" THEN (IF a.v > 0 THEN PInf ELSE NaN)
  ELSE IF a.v < 0 THEN NaN
  ELSE Fin(ISqrtBetween(a.v * SCALE, 0, 46340))

Sq(a) == Mul(a, a)

\* JavaScript comparisons: false whenever an operand is NaN
Lt(a, b) ==
  IF IsNaN(a) \/ IsNaN(b) THEN FALSE
  ELSE IF a.k = "inf" THEN a.v < 0 /\ ~(b.k = "inf" /\ b.v < 0)
  ELSE IF b.k = "inf" THEN b.v > 0
  ELSE a.v < b.v

Gt(a, b) == Lt(b, a)
Le(a, b) == ~IsNaN(a) /\ ~IsNaN(b) /\ ~Lt(b, a)
Ge(a, b) == Le(b, a)

\* Math.max(a, b)
Max(a, b) == IF IsNaN(a) \/ IsNaN(b) THEN NaN ELSE IF Lt(a, b) THEN b ELSE a

\* ------------------------------------------------------------- samples
Vals == -1 .. MaxVal
Points == Vals \X Vals
PointRank(p) == (p[1] + 1) * (MaxVal + 2) + (p[2] + 1)

\* paired observations, listed in non-decreasing (x, y) order
Samples ==
  { s \in UNION { [1 .. n -> Points] : n \in 0 .. MaxLen } :
      \A i \in 1 .. Len(s) - 1 : PointRank(s[i]) <= PointRank(s[i + 1]) }

XOf(s) == [i \in 1 .. Len(s) |-> s[i][1]]
YOf(s) == [i \in 1 .. Len(s) |-> s[i][2]]
DropLast(a) == IF Len(a) = 0 THEN a ELSE SubSeq(a, 1, Len(a) - 1)

\* the (x, y) argument pairs of a sample family: equal lengths, or one array
\* one shorter
Pairs(S) == { <<XOf(s), YOf(s)>> : s \in S }
Mismatched(S) ==
  { <<DropLast(XOf(s)), YOf(s)>> : s \in S }
    \cup { <<XOf(s), DropLast(YOf(s))>> : s \in S }

\* the argument pairs tried: every sample, and the mismatched pairs of the
\* samples of at most two points
Inputs == Pairs(Samples) \cup Mismatched({ s \in Samples : Len(s) <= 2 })

\* paired observations with x strictly increasing over -1 .. MaxVal + 1 and
\* y over Vals, for the iterative and the resampling procedures
Series ==
  { s \in UNION { [1 .. n -> (-1 .. MaxVal + 1) \X Vals] : n \in 0 .. MaxLen } :
      \A i \in 1 .. Len(s) - 1 : s[i][1] < s[i + 1][1] }
SeriesInputs == Pairs(Series) \cup Mismatched({ s \in Series : Len(s) <= 2 })

Nums(a) == [i \in 1 .. Len(a) |-> FromInt(a[i])]

ErrorRatios == { FromInt(-1), Zero, One, Two, NaN }

\* ---------------------------------------------------- numeric primitives
\* left-to-right sum, as a reduce or accumulation loop computes it
RECURSIVE SumTo(_, _)
SumTo(a, i) == IF i = 0 THEN Zero ELSE Add(SumTo(a, i - 1), a[i])
Sum(a) == SumTo(a, Len(a))

\* jstat mean
mean(a) == Div(Sum(a), FromInt(Len(a)))

devsq(a) ==
  LET avg == mean(a)
  IN Sum([i \in 1 .. Len(a) |-> Mul(Sub(a[i], avg), Sub(a[i], avg))])

\* Math.min(...a): NaN when an element is NaN, +Infinity for no elements
RECURSIVE MinTo(_, _)
MinTo(a, i) ==
  IF i = 0 THEN PInf
  ELSE LET m == MinTo(a, i - 1)
       IN IF IsNaN(m) \/ IsNaN(a[i]) THEN NaN
          ELSE IF Lt(a[i], m) THEN a[i] ELSE m
Min(a) == MinTo(a, Len(a))

NaNModel(b1, b0) ==
  [slope |-> b1, intercept |-> b0, slopeLCL |-> NaN, slopeUCL |-> NaN,
   interceptLCL |-> NaN, interceptUCL |-> NaN]

NoModel == NaNModel(NaN, NaN)

\* ------------------------------------------------------ DemingRegression
\* mutant: the guard on negative values looks at x only
DemingValidate_XOnly(xs, ys, lambda) ==
  IF Len(xs) # Len(ys) \/ Len(xs) = 0 THEN "length"
  ELSE IF ~Gt(lambda, Zero) THEN "errorRatio"
  ELSE IF Lt(Min(xs), Zero) THEN "negative"
  ELSE "none"

\* the guard clauses of calculateDeming; "none" when the input is accepted
DemingValidate(xs, ys, lambda) ==
  IF Len(xs) # Len(ys) \/ Len(xs) = 0 THEN "length"
  ELSE IF ~Gt(lambda, Zero) THEN "errorRatio"
  ELSE IF Lt(Min(xs), Zero) \/ Lt(Min(ys), Zero) THEN "negative"
  ELSE "none"

\* the root of the Deming quadratic for deviation sums u, q, p
DemingSlope(lambda, u, q, p) ==
  Div(Add(Sub(Mul(lambda, q), u),
          Sqrt(Add(Sq(Sub(u, Mul(lambda, q))), Mul(Mul(Four, lambda), Sq(p))))),
      Mul(Mul(Two, lambda), p))

DemingP(xs, ys) ==
  LET mean_x == mean(xs)
      mean_y == mean(ys)
  IN Sum([i \in 1 .. Len(xs) |-> Mul(Sub(xs[i], mean_x), Sub(ys[i], mean_y))])

\* calculateDeming: [err, model]
calculateDeming(xs, ys, lambda) ==
  LET e == DemingValidate(xs, ys, lambda)
      Fitted(slope) ==
        [err |-> "none",
         model |-> NaNModel(slope, Sub(mean(ys), Mul(slope, mean(xs))))]
  IN IF e # "none" THEN [err |-> e, model |-> NoModel]
     ELSE Fitted(DemingSlope(lambda, devsq(xs), devsq(ys), DemingP(xs, ys)))

\* ---------------------------------------------- WeightedDemingRegression
IterMaxes == 0 .. MaxIter
Thresholds == { Zero, Fin(SCALE \div 100), FromInt(100) }

\* the constructor arguments tried: every accepted combination, and the
\* combinations with one argument, or all three, out of range
WDemingParams ==
  { <<lambda, im, thr>> \in ErrorRatios \X IterMaxes \X Thresholds :
      \/ Gt(lambda, Zero) /\ im > 0 /\ Gt(thr, Zero)
      \/ im = 1 /\ thr = Fin(SCALE \div 100)
      \/ lambda = One /\ thr = Fin(SCALE \div 100)
      \/ lambda = One /\ im = 1
      \/ lambda = Zero /\ im = 0 /\ thr = Zero }

\* mutant: the guard on iterMax is missing
WDemingValidate_NoIterMax(xs, ys, lambda, im, thr) ==
  IF Len(xs) # Len(ys) \/ Len(xs) = 0 THEN "length"
  ELSE IF ~Gt(lambda, Zero) THEN "errorRatio"
  ELSE IF ~Gt(thr, Zero) THEN "threshold"
  ELSE IF Lt(Min(xs), Zero) \/ Lt(Min(ys), Zero) THEN "negative"
  ELSE "none"

\* the guard clauses of calculateWeightedDeming
WDemingValidate(xs, ys, lambda, im, thr) ==
  IF Len(xs) # Len(ys) \/ Len(xs) = 0 THEN "length"
  ELSE IF ~Gt(lambda, Zero) THEN "errorRatio"
  ELSE IF ~(im > 0) THEN "iterMax"
  ELSE IF ~Gt(thr, Zero) THEN "threshold"
  ELSE IF Lt(Min(xs), Zero) \/ Lt(Min(ys), Zero) THEN "negative"
  ELSE "none"

\* the weights w[i] of one pass, from the current coefficients
WDemingWeights(xs, ys, lambda, cb0, cb1) ==
  [i \in 1 .. Len(xs) |->
     LET d == Sub(ys[i], Add(cb0, Mul(cb1, xs[i])))
         x_hat == Add(xs[i], Div(Mul(Mul(lambda, cb1), d),
                                 Add(One, Mul(Mul(lambda, cb1), cb1))))
         y_hat == Sub(ys[i], Div(d, Add(One, Mul(lambda, Sq(cb1)))))
         v == Div(Add(x_hat, Mul(lambda, y_hat)), Add(One, lambda))
     IN Div(One, Sq(v))]

\* one pass of the loop body: the coefficients b_1, b_0 it computes
WDemingStep(xs, ys, lambda, cb0, cb1) ==
  LET n == Len(xs)
      \* b_0 from the weighted means and b_1
      Line(wx, wy, b_1) == [b_1 |-> b_1, b_0 |-> Sub(wy, Mul(b_1, wx))]
      \* the weighted deviation sums u, q, p about the weighted means
      Deviations(w, wx, wy) ==
        Line(wx, wy,
             DemingSlope(lambda,
               Sum([i \in 1 .. n |-> Mul(w[i], Sq(Sub(xs[i], wx)))]),
               Sum([i \in 1 .. n |-> Mul(w[i], Sq(Sub(ys[i], wy)))]),
               Sum([i \in 1 .. n |->
                      Mul(Mul(w[i], Sub(xs[i], wx)), Sub(ys[i], wy))])))
      \* the weighted means of x and y
      Means(w, sumW) ==
        Deviations(w, Div(Sum([i \in 1 .. n |-> Mul(w[i], xs[i])]), sumW),
                      Div(Sum([i \in 1 .. n |-> Mul(w[i], ys[i])]), sumW))
      Weighted(w) == Means(w, Sum(w))
  IN Weighted(WDemingWeights(xs, ys, lambda, cb0, cb1))

\* mutant: one coefficient within the threshold is enough
Converged_Either(cb0, cb1, nb, thr) ==
  Lt(Abs(Sub(cb1, nb.b_1)), thr) \/ Lt(Abs(Sub(cb0, nb.b_0)), thr)

\* the convergence test that ends the loop early
Converged(cb0, cb1, nb, thr) ==
  Lt(Abs(Sub(cb1, nb.b_1)), thr) /\ Lt(Abs(Sub(cb0, nb.b_0)), thr)

\* the condition under which a pass logs "No convergence after ..."
LogsWarning(it, im) == it = im

\* the loop condition
LoopContinues(it, im) == it <= im

\* ----------------------------------------------- PassingBablokRegression
\* An angle a of the matrix is kept as its tangent t = tan(a): atan is
\* increasing, so angles order as their tangents do, a <= -PI/4 iff t <= -1,
\* and PI/2 has t = +Infinity.  kind "sent" is the entry 500 that marks a pair
\* to leave out, kind "nan" what arithmetic on a missing entry gives.
Ang(t) == [k |-> "ang", t |-> t]
Sentinel == [k |-> "sent", t |-> PInf]
NaNAngle == [k |-> "nan", t |-> NaN]

Decimal(units, per) == Fin((units * SCALE) \div per)
EPS == Decimal(1, 1000000000)      \* eps = 0.000000000001 of calcDiff
TAN250 == Decimal(-4027, 1000)     \* Math.tan(250)
TAN500 == Decimal(529, 1000)       \* Math.tan(500)
Alphas == { Decimal(5, 100), Decimal(50, 100) }

\* normal.inv(1 - alpha / 2, 0, 1) for the alphas tried
NormalInv(alpha) ==
  IF alpha = Decimal(5, 100) THEN Decimal(1960, 1000) ELSE Decimal(674, 1000)

\* arr[idx] of a number array, undefined (NaN in arithmetic) outside it
NumAt(a, idx) == IF idx >= 0 /\ idx < Len(a) THEN a[idx + 1] ELSE NaN

calcDiff(a, b) ==
  LET delta == Sub(a, b)
  IN IF Lt(Abs(delta), Mul(EPS, Div(Add(Abs(a), Abs(b)), Two)))
       THEN Zero ELSE delta

\* mutant: the pairs below the diagonal are computed as well
AngleEntry_BothTriangles(xs, ys, j, k, positiveCorrelated) ==
  LET dx == calcDiff(NumAt(xs, k), NumAt(xs, j))
      dy == calcDiff(NumAt(ys, k), NumAt(ys, j))
  IN IF dx # Zero THEN Ang(Div(dy, dx))
     ELSE IF dy # Zero
       THEN (IF positiveCorrelated THEN Ang(PInf) ELSE Ang(NInf))
     ELSE Sentinel

\* entry (j, k), 0-based, of the angle matrix
AngleEntry(xs, ys, j, k, positiveCorrelated) ==
  IF k < j THEN Sentinel
  ELSE LET dx == calcDiff(NumAt(xs, k), NumAt(xs, j))
           dy == calcDiff(NumAt(ys, k), NumAt(ys, j))
       IN IF dx # Zero THEN Ang(Div(dy, dx))
          ELSE IF dy # Zero
            THEN (IF positiveCorrelated THEN Ang(PInf) ELSE Ang(NInf))
          ELSE Sentinel

IsReal(a) == a.k = "ang"

calcAngleMatrix(xs, ys, positiveCorrelated) ==
  LET nrows == Len(xs)
      ncols == Len(ys)
      Counted(matrix) ==
        LET Count(P(_)) == Cardinality({ i \in 1 .. nrows * ncols :
                                           IsReal(matrix[i]) /\ P(matrix[i].t) })
            AllReal(t) == TRUE
            LeNeg(t) == Le(t, FromInt(-1))
            LtNeg(t) == Lt(t, FromInt(-1))
            GePos(t) == Ge(t, One)
            GtPos(t) == Gt(t, One)
        IN [matrix |-> matrix, nAllItems |-> Count(AllReal),
            nNeg |-> Count(LeNeg), nNeg2 |-> Count(LtNeg),
            nPos |-> Count(GePos), nPos2 |-> Count(GtPos)]
  IN Counted([i \in 1 .. nrows * ncols |->
                AngleEntry(xs, ys, (i - 1) \div nrows, (i - 1) % nrows,
                           positiveCorrelated)])

\* a - b < 0 for two matrix entries, the sentinel being the number 500
AngleBefore(a, b) ==
  IF a.k = "nan" \/ b.k = "nan" THEN FALSE
  ELSE IF a.k = "sent" THEN FALSE
  ELSE IF b.k = "sent" THEN TRUE
  ELSE Lt(a.t, b.t)

\* Array.prototype.sort with the numeric compare function, as a stable
\* insertion sort: e goes before the first later element it compares below
RECURSIVE InsertAngle(_, _)
InsertAngle(s, e) ==
  IF s = <<>> THEN <<e>>
  ELSE IF AngleBefore(e, s[Len(s)]) THEN
         Append(InsertAngle(SubSeq(s, 1, Len(s) - 1), e), s[Len(s)])
  ELSE Append(s, e)

RECURSIVE SortAnglesTo(_, _)
SortAnglesTo(a, i) ==
  IF i = 0 THEN <<>> ELSE InsertAngle(SortAnglesTo(a, i - 1), a[i])
SortAngles(a) == SortAnglesTo(a, Len(a))

RECURSIVE InsertNum(_, _)
InsertNum(s, e) ==
  IF s = <<>> THEN <<e>>
  ELSE IF Lt(e, s[Len(s)]) THEN
         Append(InsertNum(SubSeq(s, 1, Len(s) - 1), e), s[Len(s)])
  ELSE Append(s, e)

RECURSIVE SortNumsTo(_, _)
SortNumsTo(a, i) ==
  IF i = 0 THEN <<>> ELSE InsertNum(SortNumsTo(a, i - 1), a[i])
SortNums(a) == SortNumsTo(a, Len(a))

\* matrix[idx] for a 0-based idx; a read outside the array gives undefined
AngleAt(m, idx) == IF idx >= 0 /\ idx < Len(m) THEN m[idx + 1] ELSE NaNAngle

\* tan(a / 2) from t = tan(a), for an angle a in [-PI/2, PI/2]
TanHalf(t) ==
  IF IsNaN(t) THEN NaN
  ELSE IF t.k = "inf" THEN (IF t.v > 0 THEN One ELSE FromInt(-1))
  ELSE IF t.v = 0 THEN Zero
  ELSE Div(Sub(Sqrt(Add(One, Sq(t))), One), t)

\* tan(A + B) from tan(A) and tan(B)
TanAdd(ta, tb) == Div(Add(ta, tb), Sub(One, Mul(ta, tb)))

\* Math.tan(a) of one matrix entry
TanOf(a) ==
  IF a.k = "ang" THEN a.t
  ELSE IF a.k = "sent" THEN TAN500
  ELSE NaN

\* Math.tan((a + b) / 2.0) of two matrix entries; (a + a) / 2.0 is a itself
TanOfMean(a, b) ==
  IF a.k = "nan" \/ b.k = "nan" THEN NaN
  ELSE IF a = b THEN TanOf(a)
  ELSE IF a.k = "sent" THEN TanAdd(TanHalf(b.t), TAN250)
  ELSE IF b.k = "sent" THEN TanAdd(TanHalf(a.t), TAN250)
  ELSE TanAdd(TanHalf(a.t), TanHalf(b.t))

\* the tangent of the ranked angle for rank count m: the entry at position
\* idx, or the mean of it and the next when m is even
RankedSlope(matrix, m, idx) ==
  IF m % 2 = 0 THEN TanOfMean(AngleAt(matrix, idx - 1), AngleAt(matrix, idx))
  ELSE TanOf(AngleAt(matrix, idx - 1))

\* Math.round
Round(a) == (a.v + SCALE \div 2) \div SCALE

\* b * x for a slope b that is a tangent: Math.tan never returns Infinity
\* (tan(PI / 2) is 1.6e16), so the product with 0 is 0 and never NaN
SlopeTimes(b, xi) ==
  IF b.k = "inf" /\ xi = Zero THEN Zero ELSE Mul(b, xi)

\* the median of y[i] - b * x[i] over the n points
InterceptMedian(xs, ys, b) ==
  LET n == Len(xs)
      arr == SortNums([i \in 1 .. n |->
                         Sub(NumAt(ys, i - 1), SlopeTimes(b, xs[i]))])
      half == n \div 2 - 1
  IN IF n % 2 = 0 THEN Div(Add(NumAt(arr, half), NumAt(arr, half + 1)), Two)
     ELSE NumAt(arr, half)

\* mutant: each intercept limit is taken with the slope limit of its own name
InterceptLimits_Respective(xs, ys, slopeL, slopeU) ==
  [interceptL |-> InterceptMedian(xs, ys, slopeL),
   interceptU |-> InterceptMedian(xs, ys, slopeU)]

\* interceptL, from interceptLArr[i] = y[i] - slopeU * x[i], and interceptU,
\* from interceptUArr[i] = y[i] - slopeL * x[i]
InterceptLimits(xs, ys, slopeL, slopeU) ==
  [interceptL |-> InterceptMedian(xs, ys, slopeU),
   interceptU |-> InterceptMedian(xs, ys, slopeL)]

\* mutant: negative values are rejected as the Deming estimators do
PaBaValidate_RejectNegative(xs, ys) ==
  IF Len(xs) * Len(ys) - 1 < 0 THEN "RangeError"
  ELSE IF Lt(Min(xs), Zero) \/ Lt(Min(ys), Zero) THEN "negative"
  ELSE "none"

\* what can make calculatePaBa throw: new Array(nData - 1) in calcAngleMatrix
\* raises a RangeError for nData = 0; the arrays are not validated
PaBaValidate(xs, ys) ==
  IF Len(xs) * Len(ys) - 1 < 0 THEN "RangeError" ELSE "none"

\* calculatePaBa: [err, model]
calculatePaBa(xs, ys, alpha, positiveCorrelated) ==
  IF PaBaValidate(xs, ys) # "none"
    THEN [err |-> PaBaValidate(xs, ys), model |-> NoModel]
  ELSE
  LET n == Len(xs)
      z == NormalInv(alpha)
      t == n * (n - 1) * (2 * n + 5)
      \* the intercepts, from the slope and its limits
      Model(slope, slopeL, slopeU) ==
        [err |-> "none",
         model |-> [slope |-> slope,
                    intercept |-> InterceptMedian(xs, ys, slope),
                    slopeLCL |-> slopeL,
                    slopeUCL |-> slopeU,
                    interceptLCL |->
                      InterceptLimits(xs, ys, slopeL, slopeU).interceptL,
                    interceptUCL |->
                      InterceptLimits(xs, ys, slopeL, slopeU).interceptU]]
      \* the slope and its limits, from the counts am, the sorted matrix and
      \* the rank distance dConf
      Ranked(am, matrix, dConf) ==
        LET nAllItems == am.nAllItems
            offset == IF positiveCorrelated THEN am.nNeg + am.nNeg2
                      ELSE -1 * (am.nPos + am.nPos2)
            nValIndex2 == nAllItems + offset
            half == (nValIndex2 + 1) \div 2
            ml == nAllItems - dConf + offset
            mlIdx == (ml + 1) \div 2
            lowestIdx == IF positiveCorrelated
                           THEN 2 * (am.nNeg - am.nNeg2) + 1
                         ELSE 2 * (am.nPos - am.nPos2) + 1
            m2 == nAllItems + dConf + offset
            m2Idx == (m2 + 1) \div 2
        IN Model(RankedSlope(matrix, nValIndex2, half),
                 IF mlIdx >= lowestIdx THEN RankedSlope(matrix, ml, mlIdx)
                 ELSE NaN,
                 IF m2Idx <= nAllItems THEN RankedSlope(matrix, m2, m2Idx)
                 ELSE NaN)
      Sorted(am) ==
        Ranked(am, SortAngles(am.matrix),
               Round(Mul(z, Sqrt(Div(FromInt(t), FromInt(18))))))
  IN Sorted(calcAngleMatrix(xs, ys, positiveCorrelated))

\* ------------------------------------ the estimators as whole functions
\* the while loop of calculateWeightedDeming run to its end
RECURSIVE WDemingLoop(_, _, _, _, _, _, _, _)
WDemingLoop(xs, ys, lambda, im, thr, it, cb0, cb1) ==
  IF ~LoopContinues(it, im) THEN NaNModel(cb1, cb0)
  ELSE LET Pass(nb) ==
             IF Converged(cb0, cb1, nb, thr) THEN NaNModel(cb1, cb0)
             ELSE WDemingLoop(xs, ys, lambda, im, thr, it + 1, nb.b_0, nb.b_1)
       IN Pass(WDemingStep(xs, ys, lambda, cb0, cb1))

calculateWeightedDeming(xs, ys, lambda, im, thr) ==
  LET e == WDemingValidate(xs, ys, lambda, im, thr)
      From(initial) ==
        IF initial.err # "none" THEN initial
        ELSE [err |-> "none",
              model |-> WDemingLoop(xs, ys, lambda, im, thr, 0,
                                    initial.model.intercept,
                                    initial.model.slope)]
  IN IF e # "none" THEN [err |-> e, model |-> NoModel]
     ELSE From(calculateDeming(xs, ys, lambda))

\* a Regression object: its class and constructor arguments
Estimator(kind, lambda, im, thr, a, pos) ==
  [kind |-> kind, errorRatio |-> lambda, iterMax |-> im, threshold |-> thr,
   alpha |-> a, positiveCorrelated |-> pos]

\* regression.calculate(xs, ys)
Calculate(est, xs, ys) ==
  IF est.kind = "Deming" THEN calculateDeming(xs, ys, est.errorRatio)
  ELSE IF est.kind = "WDeming" THEN
    calculateWeightedDeming(xs, ys, est.errorRatio, est.iterMax, est.threshold)
  ELSE calculatePaBa(xs, ys, est.alpha, est.positiveCorrelated)

\* -------------------------------------------- JackknifeConfidenceInterval
NoCI ==
  [slope |-> NaN, intercept |-> NaN, slopeSE |-> NaN, interceptSE |-> NaN,
   slopeLCL |-> NaN, slopeUCL |-> NaN, interceptLCL |-> NaN,
   interceptUCL |-> NaN]

\* studentt.inv(1 - alpha / 2, df) for the alphas and sizes tried
StudentTInv(alpha, df) ==
  IF alpha = Decimal(5, 100)
    THEN (IF df = 1 THEN Decimal(12706, 1000)
          ELSE IF df = 2 THEN Decimal(4303, 1000) ELSE Decimal(3182, 1000))
    ELSE (IF df = 1 THEN Decimal(1000, 1000)
          ELSE IF df = 2 THEN Decimal(816, 1000) ELSE Decimal(765, 1000))

\* jstat stdev(arr, true): the sample standard deviation
stdev(a) == Sqrt(Div(devsq(a), FromInt(Len(a) - 1)))

linnetSE(b_jack, b_global) ==
  LET n == Len(b_jack)
      d_b == [i \in 1 .. n |->
                Sub(Mul(FromInt(n), b_global), Mul(FromInt(n - 1), b_jack[i]))]
  IN Div(stdev(d_b), Sqrt(FromInt(n)))

\* mutant: every pass leaves out the last entry
LeaveOut_Last(a, n, i) == [j \in 1 .. n - 1 |-> NumAt(a, j - 1)]

\* vx (or vy) of pass i, 1-based: the first n entries of a without entry i
LeaveOut(a, n, i) ==
  [j \in 1 .. n - 1 |-> IF j < i THEN NumAt(a, j - 1) ELSE NumAt(a, j)]

\* mutant: the guard admits a sample of two
JackknifeRejects_OffByOne(n) == n - 1 < 1

\* the guard of JackknifeConfidenceInterval.calculate
JackknifeRejects(n) == n - 1 <= 1

\* JackknifeConfidenceInterval(x, y, est, alpha).calculate():
\* [err, ci, fits, calls], fits counting the calls of est.calculate that were
\* made and calls listing the arrays each of them was handed
JackknifeCI(xs, ys, est, alpha) ==
  LET n == Len(xs)
      size == n - 1
      z == StudentTInv(alpha, size - 1)
      \* the interval, from the global coefficients and their standard errors
      Limits(b1, b0, se_b1, se_b0) ==
        [slope |-> b1, intercept |-> b0,
         slopeSE |-> se_b1, interceptSE |-> se_b0,
         slopeLCL |-> Sub(b1, Mul(z, se_b1)),
         slopeUCL |-> Add(b1, Mul(z, se_b1)),
         interceptLCL |-> Sub(b0, Mul(z, se_b0)),
         interceptUCL |-> Add(b0, Mul(z, se_b0))]
      Handed(i) ==
        IF i = 0 THEN [x |-> xs, y |-> ys]
        ELSE [x |-> LeaveOut(xs, n, i), y |-> LeaveOut(ys, n, i)]
      Made(r) == r @@ [calls |-> [c \in 1 .. r.fits |-> Handed(c - 1)]]
      \* reg is the fit of the whole sample, sub[i] the fit without point i
      Interval(reg, sub) ==
        LET failed == { i \in 1 .. n : sub[i].err # "none" }
            first == CHOOSE i \in failed : \A k \in failed : i <= k
            b_1 == [i \in 1 .. n |-> sub[i].model.slope]
            b_0 == [i \in 1 .. n |-> sub[i].model.intercept]
        IN IF reg.err # "none"
             THEN Made([err |-> reg.err, ci |-> NoCI, fits |-> 1])
           ELSE IF failed # {}
             THEN Made([err |-> sub[first].err, ci |-> NoCI,
                        fits |-> 1 + first])
           ELSE Made([err |-> "none", fits |-> 1 + n,
                      ci |-> Limits(reg.model.slope, reg.model.intercept,
                                    linnetSE(b_1, reg.model.slope),
                                    linnetSE(b_0, reg.model.intercept))])
  IN IF JackknifeRejects(n)
       THEN [err |-> "size", ci |-> NoCI, fits |-> 0, calls |-> <<>>]
     ELSE Interval(Calculate(est, xs, ys),
                   [i \in 1 .. n |->
                      Calculate(est, LeaveOut(xs, n, i), LeaveOut(ys, n, i))])

\* the estimators handed to the confidence-interval procedures
Estimators ==
  { Estimator("Deming", lambda, 0, Zero, Decimal(5, 100), TRUE) :
      lambda \in { Zero, One } }
    \cup { Estimator("WDeming", One, MaxIter, Fin(SCALE \div 100),
                     Decimal(5, 100), TRUE),
           Estimator("PaBa", One, 0, Zero, Decimal(5, 100), TRUE),
           Estimator("PaBa", One, 0, Zero, Decimal(50, 100), FALSE) }

\* the samples handed to them: the series with no negative x, and their
\* pairs with y one short
CISamples == { s \in Series : \A i \in 1 .. Len(s) : s[i][1] >= 0 }
CIInputs ==
  Pairs(CISamples) \cup { <<XOf(s), DropLast(YOf(s))>> : s \in CISamples }

\* ------------------------------------------------------ precision designs
\* a study measures days x runs x reps replicates, listed day by day, run by
\* run; the measured value follows a day, a run-within-day and a replicate
\* effect
Shapes == [days : 1 .. MaxDays, runs : 1 .. MaxRuns, reps : 1 .. MaxReps]
Effects == [day : 0 .. MaxObsVal, run : 0 .. MaxObsVal, rep : 0 .. MaxObsVal]
Measured(e, d, r, k) ==
  (e.day * d + e.run * d * r + e.rep * k) % (MaxObsVal + 1)

RECURSIVE RowsFrom(_, _, _, _, _)
RowsFrom(sh, e, d, r, k) ==
  IF d > sh.days THEN <<>>
  ELSE IF r > sh.runs THEN RowsFrom(sh, e, d + 1, 1, 1)
  ELSE IF k > sh.reps THEN RowsFrom(sh, e, d, r + 1, 1)
  ELSE << <<d, r, Measured(e, d, r, k)>> >> \o RowsFrom(sh, e, d, r, k + 1)
Rows(sh, e) == RowsFrom(sh, e, 1, 1, 1)

\* the designs tried: the full study, and the study with its first or its
\* last row missing
Designs ==
  UNION { { Rows(sh, e), Tail(Rows(sh, e)), DropLast(Rows(sh, e)) } :
            sh \in Shapes, e \in Effects }

Column(rows, c) == [i \in 1 .. Len(rows) |-> rows[i][c]]

\* ------------------------------------------------- TwoFactorNestedAnova
\* the values a[i] at the indexes i, in order, that satisfy P
RECURSIVE PickTo(_, _, _)
PickTo(a, P(_), i) ==
  IF i = 0 THEN <<>>
  ELSE IF P(i) THEN Append(PickTo(a, P, i - 1), a[i])
  ELSE PickTo(a, P, i - 1)

\* sum of f[k] over the integer keys k of f, smallest key first
RECURSIVE SumOver(_)
SumOver(f) ==
  IF DOMAIN f = {} THEN Zero
  ELSE LET k == CHOOSE m \in DOMAIN f : \A o \in DOMAIN f : m <= o
       IN Add(f[k], SumOver([o \in DOMAIN f \ {k} |-> f[o]]))

RECURSIVE CountOver(_)
CountOver(f) ==
  IF DOMAIN f = {} THEN 0
  ELSE LET k == CHOOSE m \in DOMAIN f : TRUE
       IN f[k] + CountOver([o \in DOMAIN f \ {k} |-> f[o]])

RECURSIVE MaxOver(_)
MaxOver(f) ==
  IF DOMAIN f = {} THEN 0
  ELSE LET k == CHOOSE m \in DOMAIN f : TRUE
           rest == MaxOver([o \in DOMAIN f \ {k} |-> f[o]])
       IN IF f[k] > rest THEN f[k] ELSE rest

KeysOf(f) == { f[i] : i \in 1 .. Len(f) }

\* dictA[d]: the runs of day d, and the values of one cell
RunsOfDay(fA, fB, d) == { fB[i] : i \in { k \in 1 .. Len(fA) : fA[k] = d } }
CellValues(fA, fB, vals, d, r) ==
  LET InCell(i) == fA[i] = d /\ fB[i] = r
  IN PickTo(vals, InCell, Len(vals))
\* Object.values(group).flat(): the values of day d, run by run
RECURSIVE DayValuesFrom(_, _, _, _, _)
DayValuesFrom(fA, fB, vals, d, runs) ==
  IF runs = {} THEN <<>>
  ELSE LET r == CHOOSE m \in runs : \A o \in runs : m <= o
       IN CellValues(fA, fB, vals, d, r)
            \o DayValuesFrom(fA, fB, vals, d, runs \ {r})
DayValues(fA, fB, vals, d) ==
  DayValuesFrom(fA, fB, vals, d, RunsOfDay(fA, fB, d))

\* the constructor: the counts it derives from the dictionary
numFactorA(fA) == Cardinality(KeysOf(fA))
numFactorB(fA, fB) ==
  MaxOver([d \in KeysOf(fA) |-> Cardinality(RunsOfDay(fA, fB, d))])
numReps(fA, fB) ==
  MaxOver([i \in 1 .. Len(fA) |->
             Cardinality({ k \in 1 .. Len(fA) :
                             fA[k] = fA[i] /\ fB[k] = fB[i] })])

\* mutant: a design with fewer rows than cells passes the check
Balanced_AtMost(fA, fB, n) ==
  numFactorA(fA) * numFactorB(fA, fB) * numReps(fA, fB) >= n

\* mutant: the check asks only that the days divide the rows
Balanced_ByDays(fA, fB, n) == \E q \in 0 .. n : q * numFactorA(fA) = n

\* the balance check of calculate
Balanced(fA, fB, n) == numFactorA(fA) * numFactorB(fA, fB) * numReps(fA, fB) = n

calculateSST(vals, grandMean) ==
  [sst |-> Sum([i \in 1 .. Len(vals) |-> Sq(Sub(vals[i], grandMean))]),
   dfT |-> Len(vals) - 1]

calculateSSE(fA, fB, vals) ==
  LET CellSSE(d, r) ==
        LET groupB == CellValues(fA, fB, vals, d, r)
        IN Sum([i \in 1 .. Len(groupB) |-> Sq(Sub(groupB[i], mean(groupB)))])
      DaySSE(d) == SumOver([r \in RunsOfDay(fA, fB, d) |-> CellSSE(d, r)])
      CellDf(d, r) ==
        LET len == Len(CellValues(fA, fB, vals, d, r))
        IN IF len > 1 THEN len - 1 ELSE 0
      DayDf(d) == CountOver([r \in RunsOfDay(fA, fB, d) |-> CellDf(d, r)])
  IN [sse |-> SumOver([d \in KeysOf(fA) |-> DaySSE(d)]),
      dfE |-> CountOver([d \in KeysOf(fA) |-> DayDf(d)])]

calculateSSA(fA, fB, vals, grandMean) ==
  LET DaySSA(d) ==
        LET group == DayValues(fA, fB, vals, d)
        IN Mul(FromInt(Len(group)), Sq(Sub(mean(group), grandMean)))
  IN [ssa |-> SumOver([d \in KeysOf(fA) |-> DaySSA(d)]),
      dfA |-> numFactorA(fA) - 1]

\* mutant: dfB counts the runs of each day, not the runs less one
calculateSSB_CountRuns(fA, fB) ==
  LET DayDf(d) == Cardinality(RunsOfDay(fA, fB, d))
  IN [dfB |-> CountOver([d \in KeysOf(fA) |-> DayDf(d)])]

\* calculateSSB: only the dfB it counts outlives the call
calculateSSB(fA, fB) ==
  LET DayDf(d) ==
        LET countRepMeans == Cardinality(RunsOfDay(fA, fB, d))
        IN IF countRepMeans > 0 THEN countRepMeans - 1 ELSE 0
  IN [dfB |-> CountOver([d \in KeysOf(fA) |-> DayDf(d)])]

NoTable ==
  [mean |-> NaN, sst |-> NaN, ssa |-> NaN, ssb |-> NaN, sse |-> NaN,
   dfT |-> 0, dfA |-> 0, dfB |-> 0, dfE |-> 0,
   msa |-> NaN, msb |-> NaN, mse |-> NaN, fA |-> NaN, fB |-> NaN,
   n |-> 0, nA |-> 0, nB |-> 0, nE |-> 0]

\* new TwoFactorNestedAnova(fA, fB, vals).calculate(): [err, table]
NestedAnova(fA, fB, vals) ==
  IF Len(fA) # Len(fB) \/ Len(fA) # Len(vals)
    THEN [err |-> "length", table |-> NoTable]
  ELSE IF ~Balanced(fA, fB, Len(vals))
    THEN [err |-> "unbalanced", table |-> NoTable]
  ELSE
  LET \* the mean squares and F ratios, from the sums of squares
      Table(grandMean, t, a, e, b, ssb, msa, msb, mse) ==
        [err |-> "none",
         table |-> [mean |-> grandMean, sst |-> t.sst, ssa |-> a.ssa,
                    ssb |-> ssb, sse |-> e.sse,
                    dfT |-> t.dfT, dfA |-> a.dfA, dfB |-> b.dfB,
                    dfE |-> e.dfE,
                    msa |-> msa, msb |-> msb, mse |-> mse,
                    fA |-> Div(msa, mse), fB |-> Div(msb, mse),
                    n |-> Len(vals), nA |-> numFactorA(fA),
                    nB |-> numFactorB(fA, fB), nE |-> numReps(fA, fB)]]
      MeanSquares(grandMean, t, a, e, b, ssb) ==
        Table(grandMean, t, a, e, b, ssb,
              Div(a.ssa, FromInt(a.dfA)),
              Div(ssb, FromInt(b.dfB)),
              Div(e.sse, FromInt(e.dfE)))
      Squares(grandMean, t, a, e, b) ==
        MeanSquares(grandMean, t, a, e, b, Sub(Sub(t.sst, a.ssa), e.sse))
      About(grandMean) ==
        Squares(grandMean,
                calculateSST(vals, grandMean),
                calculateSSA(fA, fB, vals, grandMean),
                calculateSSE(fA, fB, vals),
                calculateSSB(fA, fB))
  IN About(mean(vals))

\* ------------------------------------------------ chi-square quantiles
\* z with normal probability 1 - alpha / numLevels below it
ZBonferroni(alpha, numLevels) ==
  IF alpha = Decimal(5, 100)
    THEN (IF numLevels = 1 THEN Decimal(1645, 1000) ELSE Decimal(1960, 1000))
    ELSE (IF numLevels = 1 THEN Zero ELSE Decimal(674, 1000))

\* jstat chisquare.inv(p, df), p given by its normal quantile z, by the
\* Wilson-Hilferty formula df * (1 - 2/(9 df) + z * sqrt(2/(9 df)))^3
ChiSquareInv(z, df) ==
  IF ~Gt(df, Zero) THEN NaN
  ELSE LET c == Div(Two, Mul(FromInt(9), df))
           base == Add(Sub(One, c), Mul(z, Sqrt(c)))
       IN Mul(df, Mul(base, Sq(base)))

\* --------------------------------------------- TwoFactorVarianceAnalysis
NoVariance ==
  [vT |-> NaN, vA |-> NaN, vB |-> NaN, vE |-> NaN,
   sWL |-> NaN, sA |-> NaN, sB |-> NaN, sE |-> NaN,
   cvWL |-> NaN, cvA |-> NaN, cvB |-> NaN, cvE |-> NaN, dfWL |-> NaN,
   sWL_LCL |-> NaN, sWL_UCL |-> NaN, sE_LCL |-> NaN, sE_UCL |-> NaN,
   cvWL_LCL |-> NaN, cvWL_UCL |-> NaN, cvE_LCL |-> NaN, cvE_UCL |-> NaN]

getUpperConfidenceLimit(sd, df, alpha) ==
  Mul(sd, Sqrt(Div(df, ChiSquareInv(Neg(NormalInv(alpha)), df))))
getLowerConfidenceLimit(sd, df, alpha) ==
  Mul(sd, Sqrt(Div(df, ChiSquareInv(NormalInv(alpha), df))))

\* the clamp applied to a between-group variance estimate
ClampAtZero(v) == Max(Zero, v)

\* what TwoFactorVarianceAnalysis.calculate adds to the ANOVA table
TwoFactorComponents(anova, alpha) ==
  LET alphaA == Div(FromInt(anova.nA), FromInt(anova.n - 1))
      alphaAB == Div(FromInt((anova.nB - 1) * anova.nA), FromInt(anova.n - 1))
      alphaE == Div(FromInt(anova.n - anova.nA * anova.nB),
                    FromInt(anova.n - 1))
      numerator == Sq(Add(Add(Mul(alphaA, anova.msa), Mul(alphaAB, anova.msb)),
                          Mul(alphaE, anova.mse)))
      denominator1 == Div(Sq(Mul(alphaA, anova.msa)), FromInt(anova.dfA))
      denominator2 == Div(Sq(Mul(alphaAB, anova.msb)), FromInt(anova.dfB))
      denominator3 == Div(Sq(Mul(alphaE, anova.mse)), FromInt(anova.dfE))
      \* the record, from the components, deviations and limits
      Reported(vT, vA, vB, vE, sT, sA, sB, sE, dfWL,
               sWL_UCL, sWL_LCL, sE_UCL, sE_LCL) ==
        [vT |-> vT, vA |-> vA, vB |-> vB, vE |-> vE,
         sWL |-> sT, sA |-> sA, sB |-> sB, sE |-> sE,
         cvWL |-> Div(sT, anova.mean), cvA |-> Div(sA, anova.mean),
         cvB |-> Div(sB, anova.mean), cvE |-> Div(sE, anova.mean),
         dfWL |-> dfWL,
         sWL_LCL |-> sWL_LCL, sWL_UCL |-> sWL_UCL,
         sE_LCL |-> sE_LCL, sE_UCL |-> sE_UCL,
         cvWL_LCL |-> Div(sWL_LCL, anova.mean),
         cvWL_UCL |-> Div(sWL_UCL, anova.mean),
         cvE_LCL |-> Div(sE_LCL, anova.mean),
         cvE_UCL |-> Div(sE_UCL, anova.mean)]
      ConfidenceLimits(vT, vA, vB, vE, sT, sA, sB, sE, dfWL) ==
        Reported(vT, vA, vB, vE, sT, sA, sB, sE, dfWL,
                 getUpperConfidenceLimit(sT, dfWL, alpha),
                 getLowerConfidenceLimit(sT, dfWL, alpha),
                 getUpperConfidenceLimit(sE, FromInt(anova.dfE), alpha),
                 getLowerConfidenceLimit(sE, FromInt(anova.dfE), alpha))
      StandardDeviations(vT, vA, vB, vE) ==
        ConfidenceLimits(vT, vA, vB, vE,
                         Sqrt(vT), Sqrt(vA), Sqrt(vB), Sqrt(vE),
                         Div(numerator,
                             Add(Add(denominator1, denominator2),
                                 denominator3)))
      Components(vA, vB, vE) ==
        StandardDeviations(Add(Add(vA, vB), vE), vA, vB, vE)
  IN Components(ClampAtZero(Div(Sub(anova.msa, anova.msb),
                                FromInt(anova.nB * anova.nE))),
                ClampAtZero(Div(Sub(anova.msb, anova.mse), FromInt(anova.nE))),
                anova.mse)

\* TwoFactorVarianceAnalysis(fA, fB, vals, alpha).calculate():
\* [err, table, vc]
TwoFactorVariance(fA, fB, vals, alpha) ==
  LET FromAnova(r) ==
        IF r.err # "none"
          THEN [err |-> r.err, table |-> NoTable, vc |-> NoVariance]
        ELSE [err |-> "none", table |-> r.table,
              vc |-> TwoFactorComponents(r.table, alpha)]
  IN FromAnova(NestedAnova(fA, fB, vals))

\* ------------------------------------------------------- OneFactorAnova
NoOneTable ==
  [mean |-> NaN, ssTotal |-> NaN, sst |-> NaN, sse |-> NaN,
   dfTotal |-> 0, dfE |-> 0, dfT |-> 0, mst |-> NaN, mse |-> NaN, f |-> NaN,
   n |-> 0, p |-> 0, sn2 |-> 0]

\* new OneFactorAnova(fA, vals).calculate(): [err, table]
OneFactorAnova(fA, vals) ==
  IF Len(fA) # Len(vals) THEN [err |-> "length", table |-> NoOneTable]
  ELSE
  LET numGroups == Cardinality(KeysOf(fA))
      totalObservations == Len(vals)
      Group(g) == LET InGroup(i) == fA[i] = g IN PickTo(vals, InGroup, Len(vals))
      sumGroupSizesSquared ==
        CountOver([g \in KeysOf(fA) |-> Len(Group(g)) * Len(Group(g))])
      sumAllValues == Sum(vals)
      sumSquaredAllValues == Sum([i \in 1 .. Len(vals) |-> Sq(vals[i])])
      OneTable(ssTotal, sst, sse, mst, mse) ==
        [err |-> "none",
         table |-> [mean |-> mean(vals), ssTotal |-> ssTotal, sst |-> sst,
                    sse |-> sse, dfTotal |-> totalObservations - 1,
                    dfE |-> totalObservations - numGroups,
                    dfT |-> numGroups - 1,
                    mst |-> mst, mse |-> mse, f |-> Div(mst, mse),
                    n |-> totalObservations, p |-> numGroups,
                    sn2 |-> sumGroupSizesSquared]]
      OneMeanSquares(ssTotal, sst, sse) ==
        OneTable(ssTotal, sst, sse,
                 Div(sst, FromInt(numGroups - 1)),
                 Div(sse, FromInt(totalObservations - numGroups)))
      Within(ssTotal, sst) == OneMeanSquares(ssTotal, sst, Sub(ssTotal, sst))
      Corrected(correctedMean) ==
        Within(Sub(sumSquaredAllValues, correctedMean),
               Sub(SumOver([g \in KeysOf(fA) |->
                              Div(Sq(Sum(Group(g))), FromInt(Len(Group(g))))]),
                   correctedMean))
  IN Corrected(Div(Sq(sumAllValues), FromInt(Len(vals))))

\* --------------------------------------------- OneFactorVarianceAnalysis
NoOneVariance ==
  [vE |-> NaN, vB |-> NaN, sE |-> NaN, cvE |-> NaN, sB |-> NaN, cvB |-> NaN,
   s_WL |-> NaN, cv_WL |-> NaN, dfWL |-> NaN, chisqRepeatability |-> NaN,
   chisqWL |-> NaN, fRepeatability |-> NaN, fWL |-> NaN]

\* mutant: the later revision keeps the ratio without its square root
VerificationFactor_Ratio(chisq, df) == Div(chisq, df)

\* the factor as the earlier revision of OneFactorVarianceAnalysis computes it
EarlierVerificationFactor(chisq, df) == Div(chisq, df)

\* the factor that scales a claimed CV, from a chi-square quantile and its df
VerificationFactor(chisq, df) == Sqrt(Div(chisq, df))

\* what OneFactorVarianceAnalysis.calculate adds to the ANOVA table
OneFactorComponents(anova, numLevels, alpha) ==
  LET vE == anova.mse
      z == ZBonferroni(alpha, numLevels)
      \* the record, from the components and the chi-square quantiles
      Verified(vB, dfWL, chisqRepeatability, chisqWL) ==
        LET sE == Sqrt(vE)
            sB == Sqrt(vB)
            s_WL == Sqrt(Add(vE, vB))
        IN [vE |-> vE, vB |-> vB, sE |-> sE, cvE |-> Div(sE, anova.mean),
            sB |-> sB, cvB |-> Div(sB, anova.mean),
            s_WL |-> s_WL, cv_WL |-> Div(s_WL, anova.mean), dfWL |-> dfWL,
            chisqRepeatability |-> chisqRepeatability, chisqWL |-> chisqWL,
            fRepeatability |-> VerificationFactor(chisqRepeatability,
                                                  FromInt(anova.dfE)),
            fWL |-> VerificationFactor(chisqWL, dfWL)]
      Quantiles(vB, dfWL) ==
        Verified(vB, dfWL, ChiSquareInv(z, FromInt(anova.dfE)),
                 ChiSquareInv(z, dfWL))
      Satterthwaite(vB, alpha1, alpha2) ==
        LET numerator == Sq(Add(Mul(alpha1, anova.mst), Mul(alpha2, anova.mse)))
            denominator1 == Div(Sq(Mul(alpha1, anova.mst)), FromInt(anova.dfT))
            denominator2 == Div(Sq(Mul(alpha2, anova.mse)), FromInt(anova.dfE))
        IN Quantiles(vB, Div(numerator, Add(denominator1, denominator2)))
      Between(n0, alpha1) ==
        Satterthwaite(ClampAtZero(Div(Sub(anova.mst, anova.mse), n0)),
                      alpha1, Sub(One, alpha1))
      PerGroup(n0) == Between(n0, Div(One, n0))
  IN PerGroup(Div(Sub(FromInt(anova.n),
                      Div(FromInt(anova.sn2), FromInt(anova.n))),
                  FromInt(anova.p - 1)))

\* OneFactorVarianceAnalysis(fA, vals, numLevels, alpha).calculate():
\* [err, table, vc]
OneFactorVariance(fA, vals, numLevels, alpha) ==
  LET FromOneAnova(r) ==
        IF r.err # "none"
          THEN [err |-> r.err, table |-> NoOneTable, vc |-> NoOneVariance]
        ELSE [err |-> "none", table |-> r.table,
              vc |-> OneFactorComponents(r.table, numLevels, alpha)]
  IN FromOneAnova(OneFactorAnova(fA, vals))

\* the earlier revision of OneFactorVarianceAnalysis: calculate() differs
\* from the later one in the two assignments of fRepeatability and fWL
OneFactorVarianceEarlier(fA, vals, numLevels, alpha) ==
  LET Earlier(r) ==
        IF r.err # "none" THEN r
        ELSE [r EXCEPT
                !.vc.fRepeatability =
                  EarlierVerificationFactor(r.vc.chisqRepeatability,
                                            FromInt(r.table.dfE)),
                !.vc.fWL =
                  EarlierVerificationFactor(r.vc.chisqWL, r.vc.dfWL)]
  IN Earlier(OneFactorVariance(fA, vals, numLevels, alpha))

\* ------------------------------------------------------------------ state
VARIABLES
  pc,          \* "idle", "wloop" (inside the re-weighting loop), "resample"
               \* (inside the bootstrap loop), "live" (an analysis object is
               \* held) or "done"
  op,          \* the operation that was called
  x, y,        \* the sample passed to it
  estKind,     \* the class of the estimator in use
  errorRatio,  \* constructor arguments of the estimator
  iterMax,
  threshold,
  alpha,
  positiveCorrelated,
  regressionMethod, \* the regression method a MethodCompRegression was built
               \* with, "none" when none is in use
  ciMethod,    \* the confidence-interval method it was built with
  err,         \* "none", or the error the call threw
  res,         \* the RegressionModel the call returned
  ci,          \* the ConfidenceIntervalModel the call returned
  iter,        \* weighted Deming: the loop counter
  b0, b1,      \* weighted Deming: the current coefficients
  last,        \* weighted Deming: b_1, b_0 of the latest pass
  bodyRuns,    \* weighted Deming: passes of the loop body so far
  logs,        \* weighted Deming: convergence warnings logged
  stopped,     \* weighted Deming: TRUE when the loop ended by break
  fits,        \* calls of an estimator's calculate made so far
  factorA,     \* precision study: the day of each row
  factorB,     \* precision study: the run of each row
  values,      \* precision study: the measurement of each row
  numLevels,   \* one-factor analysis: the levels of the Bonferroni correction
  table,       \* the ANOVA table the call returned
  vc,          \* the variance components the call returned
  bootstrapN,  \* bootstrap: the number of resamples asked for
  coefficients,\* bootstrap: the slopes b1 and intercepts b0 fitted so far,
               \* in their order of arrival
  fields,      \* the mutable fields of the analysis object in use
  history      \* the calls made on that object, with what each returned;
               \* jackknife and bootstrap: the arrays handed to the estimator

argVars == <<x, y, estKind, errorRatio, iterMax, threshold, alpha,
             positiveCorrelated, regressionMethod, ciMethod>>
loopVars == <<iter, b0, b1, last, bodyRuns, logs, stopped>>
studyVars == <<factorA, factorB, values, numLevels, table, vc>>
extraVars == <<bootstrapN, coefficients, fields, history>>
vars == <<pc, op, argVars, err, res, ci, loopVars, fits, studyVars, extraVars>>

NoLast == [b_1 |-> NaN, b_0 |-> NaN]

CI_METHOD_JACKKNIFE == "jackknife"
CI_METHOD_BOOTSTRAP == "bootstrap"
CI_METHOD_NONPARAMETRIC == "np"
CI_METHOD_DEFAULT == "default"
REG_METHOD_DEMING == "Deming"
REG_METHOD_WDEMING == "WDeming"
REG_METHOD_PABA == "PaBa"

\* the methods a MethodCompRegression is built with
Methods(rm, cim) ==
  /\ regressionMethod' = rm
  /\ ciMethod' = cim

\* the sample and the estimator of a call
EstimatorArgs(arg, est) ==
  /\ x' = arg[1]
  /\ y' = arg[2]
  /\ estKind' = est.kind
  /\ errorRatio' = est.errorRatio
  /\ iterMax' = est.iterMax
  /\ threshold' = est.threshold
  /\ alpha' = est.alpha
  /\ positiveCorrelated' = est.positiveCorrelated

\* the arguments of a call made on an estimator or a confidence-interval
\* procedure directly
Args(arg, est) ==
  /\ EstimatorArgs(arg, est)
  /\ Methods("none", CI_METHOD_DEFAULT)

DefaultEstimator == Estimator("none", One, 0, Zero, Decimal(5, 100), TRUE)

\* the arguments of a precision analysis
Study(fA, fB, vals, nl) ==
  /\ factorA' = fA
  /\ factorB' = fB
  /\ values' = vals
  /\ numLevels' = nl

\* no precision analysis is in progress
NoStudy ==
  /\ Study(<<>>, <<>>, <<>>, 1)
  /\ table' = NoTable
  /\ vc' = NoVariance

\* no regression is in progress
NoRegression(a) ==
  /\ Args(<<<<>>, <<>>>>, [DefaultEstimator EXCEPT !.alpha = a])
  /\ res' = NoModel
  /\ ci' = NoCI
  /\ fits' = 0

\* the loop locals outside a weighted Deming call
LoopIdle ==
  /\ iter' = 0
  /\ b0' = NaN
  /\ b1' = NaN
  /\ last' = NoLast
  /\ bodyRuns' = 0
  /\ logs' = 0
  /\ stopped' = FALSE

\* the fields the constructors of TwoFactorNestedAnova and
\* OneFactorVarianceAnalysis initialise
NewFields ==
  [sst |-> Zero, ssa |-> Zero, ssb |-> Zero, sse |-> Zero,
   dfT |-> 0, dfA |-> 0, dfB |-> 0, dfE |-> 0,
   fRepeatability |-> Zero, fWL |-> Zero, isCalculated |-> FALSE]

\* no bootstrap is in progress
BootIdle ==
  /\ bootstrapN' = 0
  /\ coefficients' = [b1 |-> <<>>, b0 |-> <<>>]

\* no analysis object is held
ObjIdle ==
  /\ fields' = NewFields
  /\ history' = <<>>

Init ==
  /\ pc = "idle"
  /\ op = "none"
  /\ x = <<>>
  /\ y = <<>>
  /\ estKind = "none"
  /\ errorRatio = One
  /\ iterMax = 0
  /\ threshold = Zero
  /\ alpha = Decimal(5, 100)
  /\ positiveCorrelated = TRUE
  /\ regressionMethod = "none"
  /\ ciMethod = CI_METHOD_DEFAULT
  /\ err = "none"
  /\ res = NoModel
  /\ ci = NoCI
  /\ iter = 0
  /\ b0 = NaN
  /\ b1 = NaN
  /\ last = NoLast
  /\ bodyRuns = 0
  /\ logs = 0
  /\ stopped = FALSE
  /\ fits = 0
  /\ factorA = <<>>
  /\ factorB = <<>>
  /\ values = <<>>
  /\ numLevels = 1
  /\ table = NoTable
  /\ vc = NoVariance
  /\ bootstrapN = 0
  /\ coefficients = [b1 |-> <<>>, b0 |-> <<>>]
  /\ fields = NewFields
  /\ history = <<>>

\* a call of an estimator ends: it threw r.err or returned r.model
Returns(r) ==
  /\ err' = r.err
  /\ res' = r.model

\* est.calculate(x, y)
Fit(arg, est) ==
  /\ Args(arg, est)
  /\ Returns(Calculate(est, Nums(arg[1]), Nums(arg[2])))

\* DemingRegression(errorRatio).calculate(x, y)
DemingCalculate ==
  /\ pc = "idle"
  /\ \E arg \in Inputs, lambda \in ErrorRatios :
       Fit(arg, Estimator("Deming", lambda, 0, Zero, Decimal(5, 100), TRUE))
  /\ op' = "Deming"
  /\ pc' = "done"
  /\ fits' = 1
  /\ ci' = NoCI
  /\ LoopIdle
  /\ NoStudy
  /\ BootIdle
  /\ ObjIdle

\* WeightedDemingRegression(errorRatio, iterMax, threshold).calculate(x, y),
\* up to the loop: validation, then the starting values from a Deming fit
WDemingStart(e, initial) ==
  IF e # "none"
    THEN /\ err' = e
         /\ pc' = "done"
         /\ fits' = 0
         /\ b0' = NaN
         /\ b1' = NaN
    ELSE /\ fits' = 1
         /\ err' = initial.err
         /\ pc' = IF initial.err = "none" THEN "wloop" ELSE "done"
         /\ b1' = initial.model.slope
         /\ b0' = initial.model.intercept

WDemingEnter ==
  /\ pc = "idle"
  /\ \E arg \in SeriesInputs, prm \in WDemingParams :
       /\ Args(arg, Estimator("WDeming", prm[1], prm[2], prm[3],
                              Decimal(5, 100), TRUE))
       /\ WDemingStart(
            WDemingValidate(Nums(arg[1]), Nums(arg[2]), prm[1], prm[2], prm[3]),
            calculateDeming(Nums(arg[1]), Nums(arg[2]), prm[1]))
  /\ op' = "WDeming"
  /\ iter' = 0
  /\ last' = NoLast
  /\ bodyRuns' = 0
  /\ logs' = 0
  /\ stopped' = FALSE
  /\ res' = NoModel
  /\ ci' = NoCI
  /\ NoStudy
  /\ BootIdle
  /\ ObjIdle

\* mutant: the pass never stores its coefficients
KeptCoef_Stale(cb0, cb1, nb, conv) == [b_1 |-> cb1, b_0 |-> cb0]

\* the coefficients kept after a pass: the break leaves b1, b0 as they were,
\* otherwise they become b_1, b_0
KeptCoef(cb0, cb1, nb, conv) ==
  IF conv THEN [b_1 |-> cb1, b_0 |-> cb0] ELSE nb

\* one pass of the while loop of calculateWeightedDeming
WDemingKeep(nb, conv, kept) ==
  /\ last' = nb
  /\ b1' = kept.b_1
  /\ b0' = kept.b_0
  /\ stopped' = conv
  /\ pc' = IF conv THEN "done" ELSE "wloop"
  /\ res' = IF conv THEN NaNModel(kept.b_1, kept.b_0) ELSE res

\* the end of a pass: the convergence test, then the assignment it guards
WDemingTest(nb, conv) == WDemingKeep(nb, conv, KeptCoef(b0, b1, nb, conv))

\* the coefficients nb of a pass are in hand
WDemingPass(nb) == WDemingTest(nb, Converged(b0, b1, nb, threshold))

\* one pass of the loop
WDemingIter ==
  /\ pc = "wloop"
  /\ LoopContinues(iter, iterMax)
  /\ iter' = iter + 1
  /\ logs' = IF LogsWarning(iter + 1, iterMax) THEN logs + 1 ELSE logs
  /\ bodyRuns' = bodyRuns + 1
  /\ WDemingPass(WDemingStep(Nums(x), Nums(y), errorRatio, b0, b1))
  /\ UNCHANGED <<op, argVars, err, ci, fits, studyVars, extraVars>>

\* the loop condition fails: the current coefficients are returned
WDemingExit ==
  /\ pc = "wloop"
  /\ ~LoopContinues(iter, iterMax)
  /\ pc' = "done"
  /\ res' = NaNModel(b1, b0)
  /\ UNCHANGED <<op, argVars, err, ci, loopVars, fits, studyVars, extraVars>>

\* PassingBablokRegression(alpha, positiveCorrelated).calculate(x, y)
PaBaCalculate ==
  /\ pc = "idle"
  /\ \E arg \in Inputs, a \in Alphas, pos \in BOOLEAN :
       Fit(arg, Estimator("PaBa", One, 0, Zero, a, pos))
  /\ op' = "PaBa"
  /\ pc' = "done"
  /\ fits' = 1
  /\ ci' = NoCI
  /\ LoopIdle
  /\ NoStudy
  /\ BootIdle
  /\ ObjIdle

\* mutant: the procedure swallows the error and returns what it has
CIReturns_Swallow(r) ==
  /\ err' = "none"
  /\ ci' = r.ci
  /\ fits' = r.fits

\* a confidence-interval procedure ends: it threw r.err or returned r.ci,
\* having called the estimator r.fits times
CIReturns(r) ==
  /\ err' = r.err
  /\ ci' = r.ci
  /\ fits' = r.fits

\* JackknifeConfidenceInterval(x, y, regression, alpha).calculate()
JackknifeCalculate ==
  /\ pc = "idle"
  /\ \E arg \in CIInputs, est \in Estimators :
       /\ Args(arg, est)
       /\ LET Ends(r) == CIReturns(r) /\ history' = r.calls
          IN Ends(JackknifeCI(Nums(arg[1]), Nums(arg[2]), est, est.alpha))
  /\ op' = "Jackknife"
  /\ pc' = "done"
  /\ res' = NoModel
  /\ LoopIdle
  /\ NoStudy
  /\ BootIdle
  /\ fields' = NewFields

\* ------------------------------------------ BootstrapConfidenceInterval
\* quantile(arr, probs): the quantiles of a sorted copy of arr by linear
\* interpolation, or undefined for an empty array
quantile(arr, probs) ==
  LET sortedArr == SortNums(arr)
      n == Len(arr)
      getQuantile(p) ==
        LET Between(index) ==
              LET lowerIndex == index.v \div SCALE
                  upperIndex == (index.v + SCALE - 1) \div SCALE
                  lowerValue == NumAt(sortedArr, lowerIndex)
                  upperValue == NumAt(sortedArr, upperIndex)
              IN IF lowerIndex = upperIndex THEN lowerValue
                 ELSE Add(lowerValue,
                          Mul(Sub(upperValue, lowerValue),
                              Sub(index, FromInt(lowerIndex))))
        IN IF p = One THEN NumAt(sortedArr, n - 1)
           ELSE IF p = Zero THEN NumAt(sortedArr, 0)
           ELSE Between(Mul(FromInt(n - 1), p))
  IN IF n = 0 THEN [err |-> "none", defined |-> FALSE, q |-> <<>>]
     ELSE IF \E i \in 1 .. Len(probs) : Lt(probs[i], Zero) \/ Gt(probs[i], One)
       THEN [err |-> "RangeError", defined |-> FALSE, q |-> <<>>]
     ELSE [err |-> "none", defined |-> TRUE,
           q |-> [i \in 1 .. Len(probs) |-> getQuantile(probs[i])]]

\* mutant: sy[i] is taken at the index drawn for the next position
getBootstrapSamples_Unpaired(xs, ys, d) ==
  [x |-> [i \in 1 .. Len(xs) |-> xs[d[i]]],
   y |-> [i \in 1 .. (IF Len(ys) > Len(xs) THEN Len(ys) ELSE Len(xs)) |->
            IF i <= Len(xs) THEN NumAt(ys, d[(i % Len(xs)) + 1] - 1)
            ELSE NaN]]

\* getBootstrapSamples(x, y) when Math.random draws the indexes d[i] - 1
getBootstrapSamples(xs, ys, d) ==
  [x |-> [i \in 1 .. Len(xs) |-> xs[d[i]]],
   y |-> [i \in 1 .. (IF Len(ys) > Len(xs) THEN Len(ys) ELSE Len(xs)) |->
            IF i <= Len(xs) THEN NumAt(ys, d[i] - 1) ELSE NaN]]

\* mutant: the point estimate is taken from the resampled fits
BootstrapCI_FromResamples(global, slopes, intercepts, a) ==
  [err |-> "none",
   ci |-> [NoCI EXCEPT !.slope = NumAt(slopes, 0),
                       !.intercept = NumAt(intercepts, 0)]]

\* what BootstrapConfidenceInterval.calculate returns, from the fit of the
\* whole sample and the sorted coefficients of the resamples: [err, ci]
BootstrapCI(global, slopes, intercepts, a) ==
  LET probs == <<Div(a, Two), Sub(One, Div(a, Two))>>
      Limit(qs, i) == IF qs.defined THEN qs.q[i] ELSE NaN
      Interval(slopeCI, interceptCI) ==
        IF slopeCI.err # "none" THEN [err |-> slopeCI.err, ci |-> NoCI]
        ELSE IF interceptCI.err # "none"
          THEN [err |-> interceptCI.err, ci |-> NoCI]
        ELSE [err |-> "none",
              ci |-> [slope |-> global.slope, intercept |-> global.intercept,
                      slopeSE |-> NaN, interceptSE |-> NaN,
                      slopeLCL |-> Limit(slopeCI, 1),
                      slopeUCL |-> Limit(slopeCI, 2),
                      interceptLCL |-> Limit(interceptCI, 1),
                      interceptUCL |-> Limit(interceptCI, 2)]]
  IN Interval(quantile(slopes, probs), quantile(intercepts, probs))

\* the samples handed to the bootstrap: at most two points
BootInputs == { a \in CIInputs : Len(a[1]) <= 2 }

\* the estimator object held in the argument fields
CurrentEstimator ==
  Estimator(estKind, errorRatio, iterMax, threshold, alpha, positiveCorrelated)

\* BootstrapConfidenceInterval(x, y, regression, bootstrapN, alpha)
\* .calculate(), up to the loop: the fit of the whole sample
BootstrapStart(global) ==
  /\ err' = global.err
  /\ res' = global.model
  /\ pc' = IF global.err = "none" THEN "resample" ELSE "done"

BootstrapEnter ==
  /\ pc = "idle"
  /\ \E arg \in BootInputs, est \in Estimators, n \in 0 .. MaxB :
       /\ Args(arg, est)
       /\ bootstrapN' = n
       /\ BootstrapStart(Calculate(est, Nums(arg[1]), Nums(arg[2])))
  /\ op' = "Bootstrap"
  /\ coefficients' = [b1 |-> <<>>, b0 |-> <<>>]
  /\ fits' = 1
  /\ ci' = NoCI
  /\ LoopIdle
  /\ NoStudy
  /\ ObjIdle

\* the fit of one resample either throws or delivers its coefficients
BootstrapKeep(reg) ==
  /\ err' = reg.err
  /\ pc' = IF reg.err = "none" THEN "resample" ELSE "done"
  /\ coefficients' =
       IF reg.err = "none"
         THEN [b1 |-> Append(coefficients.b1, reg.model.slope),
               b0 |-> Append(coefficients.b0, reg.model.intercept)]
       ELSE coefficients

\* one cycle of the loop of calculateBootstrapRegression
BootstrapCycle ==
  /\ pc = "resample"
  /\ Len(coefficients.b1) < bootstrapN
  /\ \E d \in [1 .. Len(x) -> 1 .. Len(x)] :
       LET Refit(bs) ==
             /\ BootstrapKeep(Calculate(CurrentEstimator, bs.x, bs.y))
             /\ history' = Append(history, bs)
       IN Refit(getBootstrapSamples(Nums(x), Nums(y), d))
  /\ fits' = fits + 1
  /\ UNCHANGED <<op, argVars, res, ci, loopVars, studyVars, bootstrapN,
                 fields>>

\* the loop is over: the coefficients are sorted and the quantiles taken
BootstrapFinish ==
  /\ pc = "resample"
  /\ ~(Len(coefficients.b1) < bootstrapN)
  /\ pc' = "done"
  /\ CIReturns([fits |-> fits] @@ BootstrapCI(res, SortNums(coefficients.b1),
                                              SortNums(coefficients.b0), alpha))
  /\ UNCHANGED <<op, argVars, res, loopVars, studyVars, extraVars>>

\* ---------------------------------------------------- MethodCompRegression
\* BootstrapConfidenceInterval(x, y, est, B, a).calculate() as one call, when
\* Math.random draws the indexes draws[k] for resample k of B = Len(draws):
\* [err, ci, fits]
BootstrapRun(xs, ys, est, draws, a) ==
  LET Refit(bs) == Calculate(est, bs.x, bs.y)
      Interval(global, sub) ==
        LET failed == { k \in 1 .. Len(draws) : sub[k].err # "none" }
            first == CHOOSE k \in failed : \A j \in failed : k <= j
        IN IF global.err # "none"
             THEN [err |-> global.err, ci |-> NoCI, fits |-> 1]
           ELSE IF failed # {}
             THEN [err |-> sub[first].err, ci |-> NoCI, fits |-> 1 + first]
           ELSE [fits |-> 1 + Len(draws)]
                  @@ BootstrapCI(global.model,
                       SortNums([k \in 1 .. Len(draws) |-> sub[k].model.slope]),
                       SortNums([k \in 1 .. Len(draws) |->
                                   sub[k].model.intercept]),
                       a)
  IN Interval(Calculate(est, xs, ys),
              [k \in 1 .. Len(draws) |->
                 Refit(getBootstrapSamples(xs, ys, draws[k]))])

\* the end of a branch of MethodCompRegression.calculate whose if / else if
\* chain on ciMethod matched nothing: res is returned as it was initialised
OtherCIMethod(reg) ==
  [err |-> "none", reg |-> reg.model, ci |-> NoCI, fits |-> 1]

\* the estimator MethodCompRegression.calculate constructs for a recognised
\* regression method
MethodCompEstimator(rm, lambda, im, thr, a) ==
  IF rm = REG_METHOD_DEMING
    THEN Estimator("Deming", lambda, 0, Zero, Decimal(5, 100), TRUE)
  ELSE IF rm = REG_METHOD_WDEMING
    THEN Estimator("WDeming", lambda, im, thr, Decimal(5, 100), TRUE)
  ELSE Estimator("PaBa", One, 0, Zero, a, TRUE)

\* MethodCompRegression(rm, lambda, im, thr, a, cim, B).calculate(x, y) when
\* Math.random draws the indexes draws of the B resamples:
\* [err, reg, ci, fits], reg being the fit of the estimator on the sample
MethodComp(rm, cim, lambda, im, thr, a, xs, ys, draws) ==
  LET est == MethodCompEstimator(rm, lambda, im, thr, a)
      \* a confidence-interval procedure was run after the fit
      After(reg, ciRes, withSE) ==
        IF ciRes.err # "none"
          THEN [err |-> ciRes.err, reg |-> reg.model, ci |-> NoCI,
                fits |-> 1 + ciRes.fits]
        ELSE [err |-> "none", reg |-> reg.model, fits |-> 1 + ciRes.fits,
              ci |-> [slope |-> reg.model.slope,
                      intercept |-> reg.model.intercept,
                      slopeLCL |-> ciRes.ci.slopeLCL,
                      slopeUCL |-> ciRes.ci.slopeUCL,
                      interceptLCL |-> ciRes.ci.interceptLCL,
                      interceptUCL |-> ciRes.ci.interceptUCL,
                      slopeSE |-> IF withSE THEN ciRes.ci.slopeSE ELSE NaN,
                      interceptSE |->
                        IF withSE THEN ciRes.ci.interceptSE ELSE NaN]]
      \* the limits are those of the fit itself
      Own(reg) ==
        [err |-> "none", reg |-> reg.model, fits |-> 1,
         ci |-> [slope |-> reg.model.slope,
                 intercept |-> reg.model.intercept,
                 slopeLCL |-> reg.model.slopeLCL,
                 slopeUCL |-> reg.model.slopeUCL,
                 interceptLCL |-> reg.model.interceptLCL,
                 interceptUCL |-> reg.model.interceptUCL,
                 slopeSE |-> NaN, interceptSE |-> NaN]]
      Branch(reg) ==
        IF reg.err # "none"
          THEN [err |-> reg.err, reg |-> NoModel, ci |-> NoCI, fits |-> 1]
        ELSE IF rm = REG_METHOD_PABA THEN
          (IF cim = CI_METHOD_DEFAULT THEN Own(reg)
           ELSE IF cim = CI_METHOD_BOOTSTRAP
             THEN After(reg, BootstrapRun(xs, ys, est, draws, a), FALSE)
           ELSE OtherCIMethod(reg))
        ELSE
          (IF cim = CI_METHOD_JACKKNIFE \/ cim = CI_METHOD_DEFAULT
             THEN After(reg, JackknifeCI(xs, ys, est, a), TRUE)
           ELSE IF cim = CI_METHOD_BOOTSTRAP
             THEN After(reg, BootstrapRun(xs, ys, est, draws, a), FALSE)
           ELSE OtherCIMethod(reg))
  IN IF rm \notin { REG_METHOD_DEMING, REG_METHOD_WDEMING, REG_METHOD_PABA }
       THEN [err |-> "Unknown regression method", reg |-> NoModel,
             ci |-> NoCI, fits |-> 0]
     ELSE Branch(Calculate(est, xs, ys))

\* the regression methods tried: the recognised ones and one that is not
RegressionMethods ==
  { REG_METHOD_DEMING, REG_METHOD_WDEMING, REG_METHOD_PABA, "OLS" }

\* the confidence-interval method constants
CIMethods ==
  { CI_METHOD_DEFAULT, CI_METHOD_JACKKNIFE, CI_METHOD_BOOTSTRAP,
    CI_METHOD_NONPARAMETRIC }

\* the indexes Math.random can draw for B resamples of n points
Draws(B, n) == [1 .. B -> [1 .. n -> 1 .. n]]

\* MethodCompRegression(...).calculate(x, y)
MethodCompCalculate ==
  /\ pc = "idle"
  /\ \E rm \in RegressionMethods, cim \in CIMethods, lambda \in { Zero, One },
        a \in Alphas :
       \E arg \in IF cim = CI_METHOD_BOOTSTRAP THEN BootInputs ELSE CIInputs,
          B \in IF cim = CI_METHOD_BOOTSTRAP THEN 0 .. MaxCalls ELSE { 0 } :
         \E draws \in Draws(B, Len(arg[1])) :
           LET Ends(r) ==
                 /\ err' = r.err
                 /\ res' = r.reg
                 /\ ci' = r.ci
                 /\ fits' = r.fits
           IN /\ EstimatorArgs(arg, MethodCompEstimator(
                                      rm, lambda, MaxIter,
                                      Fin(SCALE \div 100), a))
              /\ Methods(rm, cim)
              /\ bootstrapN' = B
              /\ Ends(MethodComp(rm, cim, lambda, MaxIter,
                                 Fin(SCALE \div 100), a,
                                 Nums(arg[1]), Nums(arg[2]), draws))
  /\ op' = "MethodComp"
  /\ pc' = "done"
  /\ coefficients' = [b1 |-> <<>>, b0 |-> <<>>]
  /\ LoopIdle
  /\ NoStudy
  /\ ObjIdle

\* the argument arrays of a precision analysis: the columns of a design's
\* rows, or those with the values one short
StudyInputs ==
  { <<Column(d, 1), Column(d, 2), Column(d, 3)>> : d \in Designs }
    \cup { <<Column(d, 1), Column(d, 2), DropLast(Column(d, 3))>> :
             d \in Designs }

\* an ANOVA ends: it threw r.err or returned r.table
AnovaReturns(r) ==
  /\ err' = r.err
  /\ table' = r.table
  /\ vc' = NoVariance

\* a variance analysis ends: it threw r.err or returned r.vc, computed from
\* r.table
VarianceReturns(r) ==
  /\ err' = r.err
  /\ table' = r.table
  /\ vc' = r.vc

\* new TwoFactorNestedAnova(factorA, factorB, values).calculate()
NestedAnovaCalculate ==
  /\ pc = "idle"
  /\ \E st \in StudyInputs :
       /\ Study(st[1], st[2], st[3], 1)
       /\ AnovaReturns(NestedAnova(st[1], st[2], Nums(st[3])))
  /\ op' = "NestedAnova"
  /\ pc' = "done"
  /\ NoRegression(Decimal(5, 100))
  /\ LoopIdle
  /\ BootIdle
  /\ ObjIdle

\* new TwoFactorVarianceAnalysis(factorA, factorB, values, alpha).calculate()
TwoFactorVarianceCalculate ==
  /\ pc = "idle"
  /\ \E st \in StudyInputs, a \in Alphas :
       /\ Study(st[1], st[2], st[3], 1)
       /\ VarianceReturns(TwoFactorVariance(st[1], st[2], Nums(st[3]), a))
       /\ NoRegression(a)
  /\ op' = "TwoFactorVariance"
  /\ pc' = "done"
  /\ LoopIdle
  /\ BootIdle
  /\ ObjIdle

\* new OneFactorVarianceAnalysis(factorA, values, numLevels, alpha).calculate()
OneFactorVarianceCalculate ==
  /\ pc = "idle"
  /\ \E st \in StudyInputs, nl \in 1 .. 2, a \in Alphas :
       /\ Study(st[1], <<>>, st[3], nl)
       /\ VarianceReturns(OneFactorVariance(st[1], Nums(st[3]), nl, a))
       /\ NoRegression(a)
  /\ op' = "OneFactorVariance"
  /\ pc' = "done"
  /\ LoopIdle
  /\ BootIdle
  /\ ObjIdle

\* the earlier revision:
\* new OneFactorVarianceAnalysis(factorA, values, numLevels, alpha).calculate()
OneFactorEarlierCalculate ==
  /\ pc = "idle"
  /\ \E st \in StudyInputs, nl \in 1 .. 2, a \in Alphas :
       /\ Study(st[1], <<>>, st[3], nl)
       /\ VarianceReturns(OneFactorVarianceEarlier(st[1], Nums(st[3]), nl, a))
       /\ NoRegression(a)
  /\ op' = "OneFactorVarianceEarlier"
  /\ pc' = "done"
  /\ LoopIdle
  /\ BootIdle
  /\ ObjIdle

\* ------------------------------------------- analysis objects, held live
\* mutant: an accumulator keeps what the earlier call left in it
AccumulatorStart_Carried(old) == old

\* this.sst = 0 (ssa, sse likewise) at the top of calculateSST, SSA, SSE
AccumulatorStart(old) == Zero

\* the fields of a TwoFactorNestedAnova after calculateSST, calculateSSA,
\* calculateSSE, calculateSSB and the assignment of ssb, from the fields f
NestedAnovaSums(f, fA, fB, vals) ==
  LET Stored(t, a, e, b) ==
        LET sst == Add(AccumulatorStart(f.sst), t.sst)
            ssa == Add(AccumulatorStart(f.ssa), a.ssa)
            sse == Add(AccumulatorStart(f.sse), e.sse)
        IN [f EXCEPT !.sst = sst, !.ssa = ssa, !.sse = sse,
                     !.ssb = Sub(Sub(sst, ssa), sse),
                     !.dfT = t.dfT, !.dfA = a.dfA,
                     !.dfB = 0 + b.dfB, !.dfE = 0 + e.dfE]
  IN Stored(calculateSST(vals, mean(vals)),
            calculateSSA(fA, fB, vals, mean(vals)),
            calculateSSE(fA, fB, vals),
            calculateSSB(fA, fB))

\* the table calculate() builds from the fields
NestedAnovaTable(f, fA, fB, vals) ==
  LET Ratios(msa, msb, mse) ==
        [mean |-> mean(vals), sst |-> f.sst, ssa |-> f.ssa,
         ssb |-> f.ssb, sse |-> f.sse,
         dfT |-> f.dfT, dfA |-> f.dfA, dfB |-> f.dfB, dfE |-> f.dfE,
         msa |-> msa, msb |-> msb, mse |-> mse,
         fA |-> Div(msa, mse), fB |-> Div(msb, mse),
         n |-> Len(vals), nA |-> numFactorA(fA),
         nB |-> numFactorB(fA, fB), nE |-> numReps(fA, fB)]
  IN Ratios(Div(f.ssa, FromInt(f.dfA)), Div(f.ssb, FromInt(f.dfB)),
            Div(f.sse, FromInt(f.dfE)))

\* mutant: the balance check comes after the sums of squares
NestedAnovaRun_CheckLast(f, fA, fB, vals) ==
  LET Checked(g) ==
        IF ~Balanced(fA, fB, Len(vals))
          THEN [err |-> "unbalanced", fields |-> g, table |-> NoTable]
        ELSE [err |-> "none", fields |-> g,
              table |-> NestedAnovaTable(g, fA, fB, vals)]
  IN Checked(NestedAnovaSums(f, fA, fB, vals))

\* calculate() on a TwoFactorNestedAnova whose fields are f:
\* [err, fields, table]
NestedAnovaRun(f, fA, fB, vals) ==
  LET Filled(g) ==
        [err |-> "none", fields |-> g,
         table |-> NestedAnovaTable(g, fA, fB, vals)]
  IN IF ~Balanced(fA, fB, Len(vals))
       THEN [err |-> "unbalanced", fields |-> f, table |-> NoTable]
     ELSE Filled(NestedAnovaSums(f, fA, fB, vals))

\* calculate() on the object held, whose fields are f:
\* [err, fields, table, vc]
CalculateOn(f) ==
  IF op = "TwoFactorNestedAnova" THEN
    LET Ran(r) == [err |-> r.err, fields |-> r.fields, table |-> r.table,
                   vc |-> NoVariance]
    IN Ran(NestedAnovaRun(f, factorA, factorB, Nums(values)))
  ELSE IF op = "TwoFactorVarianceAnalysis" THEN
    LET Ran(r) == [err |-> r.err, fields |-> f, table |-> r.table,
                   vc |-> r.vc]
    IN Ran(TwoFactorVariance(factorA, factorB, Nums(values), alpha))
  ELSE
    LET Ran(r) ==
          [err |-> r.err, table |-> r.table, vc |-> r.vc,
           fields |-> IF r.err # "none" THEN f
                      ELSE [f EXCEPT !.fRepeatability = r.vc.fRepeatability,
                                     !.fWL = r.vc.fWL,
                                     !.isCalculated = TRUE]]
    IN Ran(OneFactorVariance(factorA, Nums(values), numLevels, alpha))

\* mutant: the getters never run calculate() themselves
NeedsCalculate_Never(f) == FALSE

\* the test at the top of getUVLRepeatability and getUVLWL
NeedsCalculate(f) == f.isCalculated = FALSE

\* new TwoFactorNestedAnova(...), new TwoFactorVarianceAnalysis(...) or
\* new OneFactorVarianceAnalysis(...): the object is held for later calls
ObjConstruct ==
  /\ pc = "idle"
  /\ \E st \in StudyInputs, nl \in 1 .. 2, a \in Alphas,
        cls \in { "TwoFactorNestedAnova", "TwoFactorVarianceAnalysis",
                  "OneFactorVarianceAnalysis" } :
       LET thrown == /\ cls = "TwoFactorNestedAnova"
                     /\ \/ Len(st[1]) # Len(st[2])
                        \/ Len(st[1]) # Len(st[3])
       IN /\ cls = "OneFactorVarianceAnalysis" \/ nl = 1
          /\ cls # "TwoFactorNestedAnova" \/ a = Decimal(5, 100)
          /\ Study(st[1],
                   IF cls = "OneFactorVarianceAnalysis" THEN <<>> ELSE st[2],
                   st[3], nl)
          /\ NoRegression(a)
          /\ op' = cls
          /\ err' = IF thrown THEN "length" ELSE "none"
          /\ pc' = IF thrown THEN "done" ELSE "live"
  /\ table' = NoTable
  /\ vc' = NoVariance
  /\ LoopIdle
  /\ BootIdle
  /\ ObjIdle

\* a call on the object ends: it threw r.err or returned, leaving r.fields
ObjReturns(call, c, r, value) ==
  /\ err' = r.err
  /\ fields' = r.fields
  /\ history' = Append(history,
                       [call |-> call, cvClaim |-> c, err |-> r.err,
                        table |-> r.table, vc |-> r.vc, value |-> value])

\* calculate() on the object held
ObjCalculate ==
  /\ pc = "live"
  /\ Len(history) < MaxCalls
  /\ LET Ran(r) == /\ ObjReturns("calculate", Zero, r, NaN)
                   /\ table' = r.table
                   /\ vc' = r.vc
     IN Ran(CalculateOn(fields))
  /\ UNCHANGED <<pc, op, argVars, res, ci, loopVars, fits, factorA, factorB,
                 values, numLevels, bootstrapN, coefficients>>

\* getUVLRepeatability(cvClaim) or getUVLWL(cvClaim) on the
\* OneFactorVarianceAnalysis held
ObjGetUVL ==
  /\ pc = "live"
  /\ op = "OneFactorVarianceAnalysis"
  /\ Len(history) < MaxCalls
  /\ \E call \in { "getUVLRepeatability", "getUVLWL" }, c \in { Two } :
       LET Got(r) ==
             ObjReturns(call, c,
                        [r EXCEPT !.table = NoOneTable, !.vc = NoOneVariance],
                        IF r.err # "none" THEN NaN
                        ELSE IF call = "getUVLRepeatability"
                          THEN Mul(c, r.fields.fRepeatability)
                        ELSE Mul(c, r.fields.fWL))
       IN Got(IF NeedsCalculate(fields) THEN CalculateOn(fields)
              ELSE [err |-> "none", fields |-> fields,
                    table |-> NoOneTable, vc |-> NoOneVariance])
  /\ UNCHANGED <<pc, op, argVars, res, ci, loopVars, fits, studyVars,
                 bootstrapN, coefficients>>

\* the caller drops the finished call, or the object it held; nothing
\* persists between invocations
Reset ==
  /\ pc \in { "done", "live" }
  /\ pc' = "idle"
  /\ op' = "none"
  /\ err' = "none"
  /\ NoRegression(Decimal(5, 100))
  /\ LoopIdle
  /\ NoStudy
  /\ BootIdle
  /\ ObjIdle

\* ---------------------------------------------------------- specifications
\* one specification per entry point of the engine
NextDeming ==
  \/ DemingCalculate
  \/ Reset

NextWDeming ==
  \/ WDemingEnter
  \/ WDemingIter
  \/ WDemingExit
  \/ Reset

NextPaBa ==
  \/ PaBaCalculate
  \/ Reset

NextJackknife ==
  \/ JackknifeCalculate
  \/ Reset

NextBootstrap ==
  \/ BootstrapEnter
  \/ BootstrapCycle
  \/ BootstrapFinish
  \/ Reset

NextObject ==
  \/ ObjConstruct
  \/ ObjCalculate
  \/ ObjGetUVL
  \/ Reset

NextVariance ==
  \/ NestedAnovaCalculate
  \/ TwoFactorVarianceCalculate
  \/ OneFactorVarianceCalculate
  \/ OneFactorEarlierCalculate
  \/ Reset

SpecDeming == Init /\ [][NextDeming]_vars
SpecWDeming == Init /\ [][NextWDeming]_vars
SpecPaBa == Init /\ [][NextPaBa]_vars
SpecJackknife == Init /\ [][NextJackknife]_vars
SpecVariance == Init /\ [][NextVariance]_vars
SpecBootstrap == Init /\ [][NextBootstrap]_vars

\* a caller that uses both confidence-interval procedures
NextCI ==
  \/ JackknifeCalculate
  \/ BootstrapEnter
  \/ BootstrapCycle
  \/ BootstrapFinish
  \/ Reset

SpecCI == Init /\ [][NextCI]_vars

NextMethodComp ==
  \/ MethodCompCalculate
  \/ Reset

SpecMethodComp == Init /\ [][NextMethodComp]_vars
SpecObject == Init /\ [][NextObject]_vars

\* ------------------------------------------------------------- properties
HasNegative(a) == \E i \in 1 .. Len(a) : a[i] < 0
Returned(o) == op = o /\ pc = "done"

\* C1 (as stated): DemingRegression.calculate throws, and returns no model,
\* exactly when the lengths differ, the length is zero, errorRatio <= 0 or a
\* value is negative
C1_ThrowsIffListed ==
  Returned("Deming") =>
    /\ err # "none" <=>
         \/ Len(x) # Len(y)
         \/ Len(x) = 0
         \/ Le(errorRatio, Zero)
         \/ HasNegative(x)
         \/ HasNegative(y)
    /\ err # "none" => res = NoModel

\* C1 (amended): DemingRegression.calculate throws, and returns no model,
\* exactly when the lengths differ, the length is zero, errorRatio is not a
\* number greater than 0 (errorRatio <= 0 or NaN) or a value is negative
C1_ThrowsIffNotPositive ==
  Returned("Deming") =>
    /\ err # "none" <=>
         \/ Len(x) # Len(y)
         \/ Len(x) = 0
         \/ ~Gt(errorRatio, Zero)
         \/ HasNegative(x)
         \/ HasNegative(y)
    /\ err # "none" => res = NoModel

C1_Witness ==
  /\ Returned("Deming")
  /\ Len(x) = Len(y) /\ Len(x) > 0
  /\ ~HasNegative(x) /\ ~HasNegative(y)
  /\ IsNaN(errorRatio)
  /\ err = "errorRatio"

\* C2: WeightedDemingRegression.calculate throws at entry, before the initial
\* Deming fit and before any pass of the loop, whenever the lengths differ,
\* the length is zero, a value is negative, or errorRatio, iterMax or
\* convergenceThreshold is <= 0
C2_ThrowsAtEntry ==
  ( /\ op = "WDeming"
    /\ \/ Len(x) # Len(y)
       \/ Len(x) = 0
       \/ HasNegative(x)
       \/ HasNegative(y)
       \/ Le(errorRatio, Zero)
       \/ iterMax <= 0
       \/ Le(threshold, Zero) )
  => /\ pc = "done"
     /\ err # "none"
     /\ fits = 0
     /\ bodyRuns = 0
     /\ res = NoModel

C2_Witness ==
  /\ Returned("WDeming")
  /\ Len(x) = Len(y) /\ Len(x) > 0
  /\ ~HasNegative(x) /\ ~HasNegative(y)
  /\ Gt(errorRatio, Zero) /\ Gt(threshold, Zero)
  /\ iterMax = 0
  /\ err = "iterMax"
  /\ fits = 0

\* C3 (as stated): on equal-length, non-empty, non-negative samples with
\* errorRatio > 0 the Deming and weighted Deming estimators return a finite
\* slope and a finite intercept
C3_FiniteCoefficients ==
  ( /\ op \in { "Deming", "WDeming" }
    /\ pc = "done"
    /\ Len(x) = Len(y) /\ Len(x) > 0
    /\ ~HasNegative(x) /\ ~HasNegative(y)
    /\ Gt(errorRatio, Zero)
    /\ err = "none" )
  => IsFinite(res.slope) /\ IsFinite(res.intercept)

\* C4: PassingBablokRegression.calculate returns a model on every input that
\* DemingRegression.calculate rejects only because a value is negative
C4_NegativeValuesAccepted ==
  ( /\ Returned("PaBa")
    /\ DemingValidate(Nums(x), Nums(y), One) = "negative" )
  => err = "none"

C4_Witness ==
  /\ Returned("PaBa")
  /\ Len(x) = Len(y) /\ Len(x) > 1
  /\ HasNegative(x) /\ HasNegative(y)
  /\ err = "none"
  /\ IsFinite(res.slope) /\ IsFinite(res.intercept)

\* C5: TwoFactorNestedAnova.calculate and TwoFactorVarianceAnalysis.calculate
\* throw, and return neither a table nor variance components, whenever
\* numDays * numRuns * numReps differs from the number of observations
C5_UnbalancedThrows ==
  ( /\ op \in { "NestedAnova", "TwoFactorVariance" }
    /\ pc = "done"
    /\ Cardinality(KeysOf(factorA)) * numFactorB(factorA, factorB)
         * numReps(factorA, factorB) # Len(values) )
  => /\ err # "none"
     /\ table = NoTable
     /\ vc = NoVariance

C5_Witness ==
  /\ Returned("TwoFactorVariance")
  /\ Len(factorA) = Len(values) /\ Len(values) > 2
  /\ err = "unbalanced"

\* C6 (as stated): for more than 2 observations every variance component a
\* variance analysis returns is >= 0: vE and vB of the one-factor analysis,
\* vE, vB, vA and vT of the two-factor analysis
C6_ComponentsNonNegative ==
  ( /\ op \in { "OneFactorVariance", "TwoFactorVariance" }
    /\ pc = "done"
    /\ err = "none"
    /\ Len(values) > 2 )
  => /\ Ge(vc.vE, Zero)
     /\ Ge(vc.vB, Zero)
     /\ op = "TwoFactorVariance" => Ge(vc.vA, Zero) /\ Ge(vc.vT, Zero)

\* C7 (as stated): the body of the re-weighting loop runs at most maxIter
\* times in a call of WeightedDemingRegression.calculate
C7_AtMostMaxIterPasses == op = "WDeming" => bodyRuns <= iterMax

\* C8: when the loop of WeightedDemingRegression.calculate ends without a pass
\* meeting the threshold, the call returns normally and its slope and
\* intercept are the coefficients computed by the last pass that ran
C8_LastIterateReturned ==
  ( /\ Returned("WDeming")
    /\ bodyRuns > 0
    /\ ~stopped )
  => /\ err = "none"
     /\ res.slope = last.b_1
     /\ res.intercept = last.b_0

C8_Witness ==
  /\ Returned("WDeming")
  /\ ~stopped
  /\ bodyRuns > 1
  /\ IsFinite(last.b_1) /\ IsFinite(last.b_0)
  /\ res.slope = last.b_1

\* C9 (as stated): a call of WeightedDemingRegression.calculate logs the
\* convergence warning exactly once when it exhausts the loop and not at all
\* when a pass converges
C9_WarningIffExhausted ==
  ( Returned("WDeming") /\ err = "none" )
  => logs = IF stopped THEN 0 ELSE 1

\* C10: JackknifeConfidenceInterval.calculate throws for every sample of
\* n <= 2 observations before the estimator is invoked, and never throws on
\* account of the sample size for n > 2
C10_SizeGuard ==
  Returned("Jackknife") =>
    /\ Len(x) <= 2 => err = "size" /\ fits = 0 /\ ci = NoCI
    /\ Len(x) > 2 => err # "size" /\ fits >= 1

C10_Witness ==
  /\ Returned("Jackknife")
  /\ Len(x) = 2 /\ Len(y) = 2
  /\ estKind = "PaBa"
  /\ err = "size"
  /\ fits = 0

\* C11: a bootstrap interval that returns carries, as its slope and
\* intercept, the coefficients the estimator gives on the original sample,
\* whatever the number of resamples and whatever indexes were drawn
C11_PointEstimateFromOriginal ==
  Returned("Bootstrap") /\ err = "none" =>
    LET global == Calculate(CurrentEstimator, Nums(x), Nums(y))
    IN /\ global.err = "none"
       /\ ci.slope = global.model.slope
       /\ ci.intercept = global.model.intercept

\* a bootstrap with at least two resamples returned, and a resample fitted a
\* slope other than the one reported
C11_Witness ==
  /\ Returned("Bootstrap")
  /\ err = "none"
  /\ bootstrapN >= 2
  /\ IsFinite(ci.slope)
  /\ \E i \in 1 .. Len(coefficients.b1) : coefficients.b1[i] # ci.slope

\* C12: the percentile limits a bootstrap returns are those it would return
\* had its resample fits delivered their coefficients in any other order
C12_OrderIndependent ==
  Returned("Bootstrap") /\ err = "none" =>
    \A p \in Permutations(1 .. bootstrapN) :
      LET Reordered(a) == [i \in 1 .. Len(a) |-> a[p[i]]]
      IN BootstrapCI(res, SortNums(Reordered(coefficients.b1)),
                     SortNums(Reordered(coefficients.b0)), alpha).ci = ci

\* C13: every calculate() made on an analysis object returns what the first
\* calculate() on a newly constructed object returns, whatever calls were
\* made on the object before it
C13_RepeatedCallsAgree ==
  pc = "live" =>
    \A i \in 1 .. Len(history) :
      history[i].call = "calculate" =>
        LET fresh == CalculateOn(NewFields)
        IN /\ history[i].err = fresh.err
           /\ history[i].table = fresh.table
           /\ history[i].vc = fresh.vc

\* a TwoFactorNestedAnova was calculated twice, its sums of squares not zero
C13_Witness ==
  /\ pc = "live"
  /\ op = "TwoFactorNestedAnova"
  /\ Len(history) = 2
  /\ \A i \in 1 .. 2 : history[i].call = "calculate" /\ history[i].err = "none"
  /\ IsFinite(fields.sst) /\ Gt(fields.sst, Zero)
  /\ IsFinite(fields.sse) /\ Gt(fields.sse, Zero)

\* C14: every getUVLRepeatability(c) and getUVLWL(c) made on a
\* OneFactorVarianceAnalysis returns c times the factor calculate() returns
\* for the object, and throws what calculate() throws when that throws,
\* whether or not a calculate() call came first
C14_LimitIsClaimTimesFactor ==
  pc = "live" /\ op = "OneFactorVarianceAnalysis" =>
    \A i \in 1 .. Len(history) :
      history[i].call # "calculate" =>
        LET r == OneFactorVariance(factorA, Nums(values), numLevels, alpha)
            factor == IF history[i].call = "getUVLRepeatability"
                        THEN r.vc.fRepeatability ELSE r.vc.fWL
        IN IF r.err # "none" THEN history[i].err = r.err
           ELSE /\ history[i].err = "none"
                /\ history[i].value = Mul(history[i].cvClaim, factor)

\* the first call on the object was getUVLWL, and it returned a limit that is
\* a positive number
C14_Witness ==
  /\ pc = "live"
  /\ op = "OneFactorVarianceAnalysis"
  /\ Len(history) >= 1
  /\ history[1].call = "getUVLWL"
  /\ history[1].err = "none"
  /\ IsFinite(history[1].value) /\ Gt(history[1].value, Zero)

\* C15: a calculate() that a TwoFactorNestedAnova ends by rejecting an
\* unbalanced design leaves sst, ssa, ssb, sse, dfT, dfA, dfB and dfE as they
\* were before the call
C15_RejectionLeavesFields ==
  [][(/\ pc = "live"
      /\ op = "TwoFactorNestedAnova"
      /\ Len(history') = Len(history) + 1
      /\ err' = "unbalanced") => fields' = fields]_vars

\* a TwoFactorNestedAnova of several rows rejected its design
C15_Witness ==
  /\ pc = "live"
  /\ op = "TwoFactorNestedAnova"
  /\ Len(values) > 2
  /\ Len(history) >= 1
  /\ history[Len(history)].err = "unbalanced"
  /\ err = "unbalanced"

C17_Study ==
  [i \in 1 .. 80 |->
     <<((i - 1) \div 4) + 1, (((i - 1) \div 2) % 2) + 1, (i - 1) % 2>>]
C17_StudyDf ==
  LET fA == Column(C17_Study, 1)
      fB == Column(C17_Study, 2)
      vals == Nums(Column(C17_Study, 3))
  IN [dfT |-> Len(vals) - 1,
      dfA |-> calculateSSA(fA, fB, vals, Zero).dfA,
      dfB |-> calculateSSB(fA, fB).dfB,
      dfE |-> calculateSSE(fA, fB, vals).dfE]

\* C17: the table TwoFactorNestedAnova.calculate returns for a balanced
\* design has dfT = N - 1, dfA = days - 1, dfB = the sum over the days of
\* (runs of the day - 1), dfE = the sum over the cells of (cell size - 1),
\* and dfA + dfB + dfE = dfT; 20 days of 2 runs of 2 replicates give
\* 79, 19, 20 and 40
C17_DegreesOfFreedom ==
  /\ Returned("NestedAnova") /\ err = "none" =>
       LET N == Len(values)
           days == { factorA[i] : i \in 1 .. N }
           cells == { <<factorA[i], factorB[i]>> : i \in 1 .. N }
           runsOf(d) == { c \in cells : c[1] = d }
           sizeOf(c) ==
             Cardinality({ i \in 1 .. N : <<factorA[i], factorB[i]>> = c })
       IN /\ table.dfT = N - 1
          /\ table.dfA = Cardinality(days) - 1
          /\ table.dfB =
               CountOver([d \in days |-> Cardinality(runsOf(d)) - 1])
          /\ table.dfE = CountOver([c \in cells |-> sizeOf(c) - 1])
          /\ table.dfA + table.dfB + table.dfE = table.dfT
  /\ C17_StudyDf = [dfT |-> 79, dfA |-> 19, dfB |-> 20, dfE |-> 40]

\* a balanced design of two days, two runs a day and two replicates a run
\* was analysed
C17_Witness ==
  /\ Returned("NestedAnova")
  /\ err = "none"
  /\ Len(values) = 8
  /\ table.dfT = 7
  /\ table.dfA = 1
  /\ table.dfB = 2
  /\ table.dfE = 4

\* C18: the intercept PassingBablokRegression.calculate returns for n >= 1
\* points and a finite slope is the median of the n values y[i] - slope * x[i]:
\* the middle one of the sorted values when n is odd, the mean of the two
\* middle ones when n is even
C18_InterceptIsMedian ==
  Returned("PaBa") /\ err = "none" /\ Len(x) = Len(y) /\ Len(x) >= 1
    /\ IsFinite(res.slope) =>
    LET n == Len(x)
        Median(arr) ==
          IF n % 2 = 0
            THEN Div(Add(arr[n \div 2], arr[n \div 2 + 1]), Two)
          ELSE arr[(n + 1) \div 2]
    IN res.intercept =
         Median(SortNums([i \in 1 .. n |->
                            Sub(FromInt(y[i]), Mul(res.slope, FromInt(x[i])))]))

C20_SlopeReadsRealAngles ==
  Returned("PaBa") /\ err = "none" =>
    LET Reads(am, matrix) ==
          LET offset == IF positiveCorrelated THEN am.nNeg + am.nNeg2
                        ELSE -1 * (am.nPos + am.nPos2)
              nValIndex2 == am.nAllItems + offset
              half == (nValIndex2 + 1) \div 2
              read == IF nValIndex2 % 2 = 0 THEN { half - 1, half }
                      ELSE { half - 1 }
          IN \A idx \in read :
               /\ idx >= 0
               /\ idx < nValIndex2
               /\ idx < Len(matrix)
               /\ IsReal(AngleAt(matrix, idx))
        Sorted(am) == Reads(am, SortAngles(am.matrix))
    IN Sorted(calcAngleMatrix(Nums(x), Nums(y), positiveCorrelated))

\* C21: a slope limit of PassingBablokRegression whose ranked position is
\* below lowestIdx (lower limit) or above nAllItems (upper limit) is NaN, and
\* a slope limit that is not NaN was read from real angles only, never from a
\* sentinel entry
C21_LimitsReadRealAngles ==
  Returned("PaBa") /\ err = "none" =>
    LET n == Len(x)
        t == n * (n - 1) * (2 * n + 5)
        Reads(am, matrix, dConf) ==
          LET offset == IF positiveCorrelated THEN am.nNeg + am.nNeg2
                        ELSE -1 * (am.nPos + am.nPos2)
              ml == am.nAllItems - dConf + offset
              mlIdx == (ml + 1) \div 2
              lowestIdx == IF positiveCorrelated
                             THEN 2 * (am.nNeg - am.nNeg2) + 1
                           ELSE 2 * (am.nPos - am.nPos2) + 1
              m2 == am.nAllItems + dConf + offset
              m2Idx == (m2 + 1) \div 2
              Read(m, idx) == IF m % 2 = 0 THEN { idx - 1, idx } ELSE { idx - 1 }
              Real(m, idx) ==
                \A i \in Read(m, idx) : IsReal(AngleAt(matrix, i))
          IN /\ mlIdx < lowestIdx => IsNaN(res.slopeLCL)
             /\ m2Idx > am.nAllItems => IsNaN(res.slopeUCL)
             /\ ~IsNaN(res.slopeLCL) => Real(ml, mlIdx)
             /\ ~IsNaN(res.slopeUCL) => Real(m2, m2Idx)
        Sorted(am) ==
          Reads(am, SortAngles(am.matrix),
                Round(Mul(NormalInv(alpha), Sqrt(Div(FromInt(t), FromInt(18))))))
    IN Sorted(calcAngleMatrix(Nums(x), Nums(y), positiveCorrelated))

\* C22: for n paired observations calcAngleMatrix counts each pair (k, j),
\* k > j, of distinct points once: nAllItems is the number of such pairs,
\* their entries are real angles, every other entry of the n * n array is
\* the sentinel, nNeg2 <= nNeg, nPos2 <= nPos, and the first nAllItems
\* entries of the sorted array are exactly the real angles
C22_EachPairOnce ==
  Returned("PaBa") /\ err = "none" /\ Len(x) = Len(y) =>
    LET n == Len(x)
        pairs == { p \in (0 .. n - 1) \X (0 .. n - 1) :
                     /\ p[2] > p[1]
                     /\ x[p[2] + 1] # x[p[1] + 1] \/ y[p[2] + 1] # y[p[1] + 1] }
        Counts(am, sorted) ==
          LET Times(m, a) == Cardinality({ i \in 1 .. Len(m) : m[i] = a })
          IN /\ Len(am.matrix) = n * n
             /\ am.nAllItems = Cardinality(pairs)
             /\ \A j \in 0 .. n - 1, k \in 0 .. n - 1 :
                  IF <<j, k>> \in pairs
                    THEN IsReal(am.matrix[j * n + k + 1])
                  ELSE am.matrix[j * n + k + 1] = Sentinel
             /\ am.nNeg2 <= am.nNeg
             /\ am.nPos2 <= am.nPos
             /\ Len(sorted) = n * n
             /\ \A i \in 1 .. n * n :
                  /\ IsReal(sorted[i]) <=> i <= am.nAllItems
                  /\ Times(sorted, sorted[i]) = Times(am.matrix, sorted[i])
        Sorted(am) == Counts(am, SortAngles(am.matrix))
    IN Sorted(calcAngleMatrix(Nums(x), Nums(y), positiveCorrelated))

\* three observations, two of them coincident, were fitted
C22_Witness ==
  /\ Returned("PaBa")
  /\ err = "none"
  /\ x = <<0, 0, 1>>
  /\ y = <<0, 0, 1>>
  /\ IsFinite(res.slope)

\* C23: a JackknifeConfidenceInterval.calculate() that returns for n > 2
\* paired observations has called the estimator n + 1 times: first with (x, y),
\* then for each i with the n - 1 pairs that remain when pair i is deleted,
\* in their original order and each x[j] with its y[j]
C23_LeaveOneOutCalls ==
  Returned("Jackknife") /\ err = "none" /\ Len(x) > 2 /\ Len(y) = Len(x) =>
    LET n == Len(x)
        Without(a, i) ==
          [j \in 1 .. n - 1 |-> FromInt(IF j < i THEN a[j] ELSE a[j + 1])]
    IN /\ fits = n + 1
       /\ Len(history) = n + 1
       /\ history[1] = [x |-> Nums(x), y |-> Nums(y)]
       /\ \A i \in 1 .. n :
            history[i + 1] = [x |-> Without(x, i), y |-> Without(y, i)]

\* the jackknife of three observations with distinct y returned
C23_Witness ==
  /\ Returned("Jackknife")
  /\ err = "none"
  /\ Len(x) = 3
  /\ Len(y) = 3
  /\ Len(history) = 4
  /\ y[1] # y[2]
  /\ y[2] # y[3]
  /\ IsFinite(ci.slope)

\* C24: every resample BootstrapConfidenceInterval hands to the estimator
\* has n pairs, each of them an original pair (x[k], y[k]) taken at one
\* index k; a calculate() that returns has fitted the original data once
\* and exactly bootstrapN resamples
C24_ResamplesOfPairs ==
  op = "Bootstrap" /\ Len(x) = Len(y) =>
    LET n == Len(x)
    IN /\ \A h \in 1 .. Len(history) :
            /\ Len(history[h].x) = n
            /\ Len(history[h].y) = n
            /\ \A i \in 1 .. n :
                 \E k \in 1 .. n :
                   /\ history[h].x[i] = FromInt(x[k])
                   /\ history[h].y[i] = FromInt(y[k])
       /\ fits = 1 + Len(history)
       /\ Len(history) <= bootstrapN
       /\ pc = "done" /\ err = "none" => Len(history) = bootstrapN

\* a resample of two distinct observations drew the same pair twice, and
\* MaxB resamples were fitted
C24_Witness ==
  /\ op = "Bootstrap"
  /\ pc = "done"
  /\ err = "none"
  /\ Len(x) = 2
  /\ Len(y) = 2
  /\ y[1] # y[2]
  /\ bootstrapN = MaxB
  /\ Len(history) = MaxB
  /\ history[1].x[1] = history[1].x[2]
  /\ history[2].x[1] # history[2].x[2]

\* C25: a pass of the re-weighting loop of WeightedDemingRegression stops the
\* loop exactly when both the slope and the intercept it computed differ from
\* the current ones by less than the threshold; a pass in which only one of
\* them does goes on, and on a stop the coefficients returned are the current
\* ones, within the threshold of the last computed ones
C25_StopsWhenBothWithin ==
  [][(pc = "wloop" /\ bodyRuns' = bodyRuns + 1) =>
       LET slopeWithin == Lt(Abs(Sub(b1, last'.b_1)), threshold)
           interceptWithin == Lt(Abs(Sub(b0, last'.b_0)), threshold)
       IN /\ stopped' <=> slopeWithin /\ interceptWithin
          /\ stopped' =>
               /\ pc' = "done"
               /\ res'.slope = b1
               /\ res'.intercept = b0
               /\ Lt(Abs(Sub(res'.slope, last'.b_1)), threshold)
               /\ Lt(Abs(Sub(res'.intercept, last'.b_0)), threshold)
          /\ ~stopped' =>
               /\ pc' = "wloop"
               /\ b1' = last'.b_1
               /\ b0' = last'.b_0]_vars

\* the loop stopped on a pass that moved a coefficient, by less than the
\* threshold
C25_Witness ==
  /\ op = "WDeming"
  /\ pc = "done"
  /\ stopped
  /\ IsFinite(last.b_1)
  /\ IsFinite(last.b_0)
  /\ last.b_1 # b1 \/ last.b_0 # b0

C27_BalanceCheckExact ==
  Returned("NestedAnova") /\ err # "length" =>
    LET N == Len(values)
        days == { factorA[i] : i \in 1 .. N }
        cells == { <<factorA[i], factorB[i]>> : i \in 1 .. N }
        runsOf(d) == Cardinality({ c \in cells : c[1] = d })
        sizeOf(c) ==
          Cardinality({ i \in 1 .. N : <<factorA[i], factorB[i]>> = c })
        balanced ==
          /\ \A d \in days, e \in days : runsOf(d) = runsOf(e)
          /\ \A c \in cells, e \in cells : sizeOf(c) = sizeOf(e)
    IN /\ err \in { "none", "unbalanced" }
       /\ err = "none" <=> balanced

\* a design whose days differ in their number of runs was rejected
C27_Witness ==
  /\ Returned("NestedAnova")
  /\ err = "unbalanced"
  /\ Len(values) = 3
  /\ Len(factorA) = 3
  /\ factorA[1] # factorA[3]
  /\ Cardinality({ factorB[i] : i \in 1 .. 3 }) = 2

\* C28: the ssb TwoFactorNestedAnova.calculate returns for a balanced design,
\* sst - ssa - sse as the arithmetic of the program computes it, equals the
\* sum over the run cells of cellSize * (cellMean - dayMean)^2 and is >= 0
C28_SsbIsNestedSum ==
  Returned("NestedAnova") /\ err = "none" =>
    LET fA == factorA
        fB == factorB
        vals == Nums(values)
        CellTerm(d, r) ==
          LET cell == CellValues(fA, fB, vals, d, r)
          IN Mul(FromInt(Len(cell)),
                 Sq(Sub(mean(cell), mean(DayValues(fA, fB, vals, d)))))
        DayTerm(d) == SumOver([r \in RunsOfDay(fA, fB, d) |-> CellTerm(d, r)])
    IN /\ table.ssb = SumOver([d \in KeysOf(fA) |-> DayTerm(d)])
       /\ Ge(table.ssb, Zero)

(* C29: whenever Passing-Bablok returns slope limits that are both not NaN, *)
(* the lower limit is at most the slope and the slope at most the upper     *)
(* limit; and then, when no x is negative, the intercept lies between its   *)
(* own two limits.                                                          *)
C29_LimitsBracketEstimates ==
  Returned("PaBa") /\ err = "none"
    /\ ~IsNaN(res.slopeLCL) /\ ~IsNaN(res.slopeUCL) =>
      /\ Le(res.slopeLCL, res.slope) /\ Le(res.slope, res.slopeUCL)
      /\ (\A i \in 1 .. Len(x) : x[i] >= 0) =>
           /\ Le(res.interceptLCL, res.intercept)
           /\ Le(res.intercept, res.interceptUCL)

(* C30: MethodCompRegression.calculate never returns with slope or         *)
(* intercept still the NaN placeholder it started from: for each of the    *)
(* regression methods Deming, WDeming and PaBa and each of the             *)
(* confidence-interval method constants it either throws or returns the    *)
(* slope and the intercept of the estimator's fit.                         *)
C30_ReturnsPointEstimateOrThrows ==
  Returned("MethodComp") /\ err = "none"
    /\ regressionMethod \in { REG_METHOD_DEMING, REG_METHOD_WDEMING,
                              REG_METHOD_PABA }
    /\ ciMethod \in CIMethods =>
      /\ ci.slope = res.slope
      /\ ci.intercept = res.intercept

====
